---- MODULE Spec2Model ----
(***************************************************************************)
(* A model of the clip-extraction pipeline of Clipper-Academy:             *)
(*   - chunked, parallel transcription with timestamp reassembly           *)
(*     (app/services/transcription.py), specification TranscribeSpec;      *)
(*   - the per-clip caption fan-out and its merge into the report          *)
(*     (app/services/zapcap.py, app/services/auto_clipper.py),             *)
(*     specification CaptionSpec.                                          *)
(*                                                                         *)
(* Times.  The code computes chunk boundaries in floating point            *)
(* (total_duration / num_chunks).  The model uses exact arithmetic: every  *)
(* time of a transcription job is held as an integer number of ticks of    *)
(* 1/num_chunks of the base time unit, so that the division is exact.      *)
(* Floating-point rounding of the quotient is not represented.             *)
(***************************************************************************)
EXTENDS Integers, Sequences, FiniteSets, TLC

(***************************************************************************)
(* Bounds of the model.                                                    *)
(***************************************************************************)
\* the largest number of chunks an audio file of the model is split into
MaxChunks == 3
\* the longest total duration of an audio file, in base time units
MaxDuration == 2
\* the largest clip ordinal of a job
MaxClips == 3
\* how many times the wall clock is seen to advance during a caption fan-out
MaxTicks == 1

(***************************************************************************)
(* Program constants.                                                      *)
(***************************************************************************)
\* Settings.max_transcription_chunk_size, in bytes
max_transcription_chunk_size == 20 * 1024 * 1024
\* Settings.max_concurrent_chunks
max_concurrent_chunks == 5
\* ZapCapService.wait_for_completion(max_wait_time=600, check_interval=5), seconds
max_wait_time == 600
check_interval == 5

VARIABLES
    \* ---- transcription job (TranscriptionService) ----
    t_pc,            \* where transcribe_audio_with_timestamps stands
    file_size,       \* os.path.getsize(audio_path)
    total_duration,  \* get_audio_duration(audio_path), base time units
    chunk_info,      \* the list split_audio_for_transcription returned
    temp_dir,        \* the chunk files that exist in settings.temp_dir
    dispatched,      \* number of chunks handed to a worker thread so far
    backend,         \* chunk index -> what the transcription backend answered
    results,         \* chunk index -> the future's result (gather's slot)
    completed,       \* chunk indices in the order their futures completed
    transcript,      \* what transcribe_audio_with_timestamps returned
    \* ---- caption fan-out (AutoClipperService step 6, ZapCapService) ----
    z_pc,            \* where step 6 of AutoClipperService.process_video stands
    use_zapcap,      \* the use_zapcap argument
    created_clips,   \* the clip_number of every rendered clip
    clock,           \* the wall clock, seconds
    ticks,           \* how many times the clock advanced
    upload_dir,      \* settings.upload_dir: path -> the clip whose bytes it holds
    results_dir,     \* settings.results_dir: the captioned files
    task,            \* clip_number -> its ZapCapService.process_video coroutine
    zapcap_results,  \* what process_clips_with_zapcap_parallel returned
    report,          \* clip_number -> the caption fields of the clip in the report
    \* ---- the configured Settings ----
    settings,        \* the Settings fields the model lets vary
    \* ---- one clipping job (AutoClipperService.process_video) ----
    j_pc,            \* where process_video stands
    video_input,     \* the video_input argument: its kind and what the source gives
    temp_files,      \* the temp_files list of process_video
    disk,            \* the files the job has created and not removed
    clip_segments,   \* the candidates analyze_clip_segments returned
    seg_i,           \* how many candidates the clip loop has examined
    render_calls,    \* the candidates create_video_clip was called for
    job_clips,       \* the created_clips list of process_video
    outcome,         \* what process_video returned or raised
    \* ---- two jobs of one process naming their files ----
    wall_clock,      \* the wall clock, seconds
    job,             \* job -> where it stands and the paths it holds
    files,           \* path -> the job that wrote it last
    \* ---- the task registry (TaskManager) ----
    registry,        \* TaskManager._tasks: task id -> its entry
    lock,            \* whether TaskManager._lock is held
    last_access,     \* the last operation on the registry and how it was made
    returned,        \* what that operation gave to its caller
    \* ---- one render (VideoProcessingService.create_video_clip) ----
    v_pc,            \* where create_video_clip stands
    clip_request,    \* its arguments: start, end and aspect label
    probe,           \* what ffprobe answered for the source
    video_info,      \* what get_video_info gave: the metadata or an error
    ffmpeg_cmd,      \* the encoder invocation that was run, if any
    returncode,      \* the exit code of that invocation, if any
    output_exists,   \* whether the output file exists
    clip_result,     \* what create_video_clip returned or raised
    \* ---- one upload to the caption backend (ZapCapService.upload_video) ----
    u_pc,            \* where upload_video stands
    upload_size,     \* os.path.getsize(video_path)
    presigned_urls,  \* how many presigned URLs the session answer holds
    requests,        \* the requests sent to the backend, in order
    uploaded_parts,  \* the manifest collected so far: part number and ETag
    upload_result,   \* what upload_video returned or raised
    \* ---- one call of VideoProcessingService.time_to_seconds ----
    p_pc,            \* whether time_to_seconds was called
    time_str,        \* its argument, a sequence of characters
    seconds,         \* what it returned
    \* ---- the clips endpoints and their background jobs ----
    api_log,         \* the requests handled so far, each with its response
    scheduled,       \* task id -> where the background job of the task stands
    saved_uploads,   \* the temp files the upload endpoint saved, still on disk
    \* ---- the event loop and the coroutines on it ----
    loop_thread,     \* the coroutine that occupies the event-loop thread, 0 for none
    l_pc,            \* where each job's process_video stands
    reads            \* how many task-status reads were served

tvars == <<t_pc, file_size, total_duration, chunk_info, temp_dir, dispatched,
           backend, results, completed, transcript>>

zvars == <<z_pc, use_zapcap, created_clips, clock, ticks, upload_dir, results_dir,
           task, zapcap_results, report>>

svars == <<settings>>

jvars == <<j_pc, video_input, temp_files, disk, clip_segments, seg_i, render_calls,
           job_clips, outcome>>

nvars == <<wall_clock, job, files>>

rvars == <<registry, lock, last_access, returned>>

evars == <<v_pc, clip_request, probe, video_info, ffmpeg_cmd, returncode,
          output_exists, clip_result>>

uvars == <<u_pc, upload_size, presigned_urls, requests, uploaded_parts, upload_result>>

pvars == <<p_pc, time_str, seconds>>

avars == <<api_log, scheduled, saved_uploads>>

lvars == <<loop_thread, l_pc, reads>>

\* the parse, the endpoints and the event loop together
xvars == <<pvars, avars, lvars>>

\* the registry, the render, the upload and the rest together
ovars == <<rvars, evars, uvars, xvars>>

vars == <<tvars, zvars, svars, jvars, nvars, ovars>>

Min(a, b) == IF a <= b THEN a ELSE b

\* a future that has not completed; a chunk the backend was not called for
Pending == [pending |-> TRUE]
NotCalled == [kind |-> "not_called"]
\* nothing returned yet by transcribe_audio_with_timestamps
NoTranscript == [kind |-> "none"]
\* the processing_summary of a job that made no report
NoSummary == [clips_created |-> 0, total_clip_duration |-> 0, zapcap_processed |-> FALSE]

\* process_video has neither returned nor raised
NoOutcome ==
    [kind |-> "none", type |-> "none", total_clips |-> 0,
     processing_summary |-> NoSummary]

(***************************************************************************)
(* split_audio_for_transcription                                           *)
(***************************************************************************)
\* a variant that rounds the quotient down instead of up
NumChunksFloor(size) == size \div max_transcription_chunk_size

\* math.ceil(file_size / max_size_bytes)
NumChunks(size) ==
    (size + max_transcription_chunk_size - 1) \div max_transcription_chunk_size

\* the path of chunk i: audio_chunk_{i}_{ts}.wav in the temp directory
ChunkPath(i) == <<"audio_chunk", i>>
AudioPath == <<"audio", 0>>

\* One chunk of the list, times in ticks of 1/n base units:
\* start_time = i * chunk_duration,
\* end_time = min((i + 1) * chunk_duration, total_duration)
ChunkEntry(i, n, duration) ==
    LET total == duration * n           \* total_duration in ticks
        chunk_duration == total \div n    \* total_duration / num_chunks, exact
        start_time == i * chunk_duration
        end_time == Min((i + 1) * chunk_duration, total)
    IN  [path |-> ChunkPath(i), start_offset |-> start_time,
         duration |-> end_time - start_time]

\* a split that takes a file of exactly the threshold size for a large one
SplitAudioAtThreshold(size, duration) ==
    IF size < max_transcription_chunk_size
    THEN << [path |-> AudioPath, start_offset |-> 0, duration |-> duration] >>
    ELSE LET n == NumChunks(size)
         IN  [k \in 1..n |-> ChunkEntry(k - 1, n, duration)]

\* The list the function returns when every ffmpeg call succeeds.
SplitAudioForTranscription(size, duration) ==
    IF size <= max_transcription_chunk_size
    THEN << [path |-> AudioPath, start_offset |-> 0, duration |-> duration] >>
    ELSE LET n == NumChunks(size)
         IN  [k \in 1..n |-> ChunkEntry(k - 1, n, duration)]

(***************************************************************************)
(* The transcription backend (an external service): what it may answer for *)
(* chunk i, whose length is dur ticks.  Timestamps are chunk-local.        *)
(***************************************************************************)
Segment(i, k, s, e) == [start |-> s, end |-> e, text |-> <<i, k>>]
Word(i, k, s, e) == [start |-> s, end |-> e, word |-> <<i, k>>]

\* the text of chunk i, a sequence of tokens; the empty text is <<>>
ChunkText(i) == << <<"chunk", i>> >>
Space == <<" ", 0>>

SegmentLists(i, dur) ==
    [ none  |-> <<>>,
      one   |-> << Segment(i, 1, 0, dur) >>,
      two   |-> << Segment(i, 1, 0, 0), Segment(i, 2, dur, dur) >>,
      back  |-> << Segment(i, 1, dur, dur), Segment(i, 2, 0, dur) >>,
      over  |-> << Segment(i, 1, dur + 1, dur + 1) >> ]

WordLists(i, dur) ==
    [ none  |-> <<>>,
      one   |-> << Word(i, 1, 0, dur) >>,
      two   |-> << Word(i, 1, 0, 0), Word(i, 2, dur, dur) >>,
      back  |-> << Word(i, 1, dur, dur), Word(i, 2, 0, dur) >>,
      over  |-> << Word(i, 1, dur + 1, dur + 1) >> ]

Verbose(i, dur, s, w, t) ==
    [kind |-> "verbose_json", segments |-> SegmentLists(i, dur)[s],
     words |-> WordLists(i, dur)[w], text |-> t]

\* kind "raise": the API call raises; "empty": model_dump() is empty;
\* "bad_timestamp": an item's start or end is not a number (the += raises)
Failure(kind) == [kind |-> kind, segments |-> <<>>, words |-> <<>>, text |-> <<>>]

BackendReplies(i, dur) ==
    { Failure("raise"), Failure("empty"), Failure("bad_timestamp"),
      Verbose(i, dur, "none", "none", <<>>),
      Verbose(i, dur, "one", "one", ChunkText(i)),
      Verbose(i, dur, "two", "two", ChunkText(i)),
      Verbose(i, dur, "back", "none", ChunkText(i)),
      Verbose(i, dur, "none", "back", <<>>),
      Verbose(i, dur, "over", "one", ChunkText(i)) }

(***************************************************************************)
(* transcribe_chunk_sync                                                   *)
(***************************************************************************)
\* a variant that shifts the start of an item and forgets its end
AdjustStartOnly(items, start_offset) ==
    [k \in DOMAIN items |-> [items[k] EXCEPT !.start = @ + start_offset]]

\* segment['start'] += start_offset; segment['end'] += start_offset
AdjustTimestamps(items, start_offset) ==
    [k \in DOMAIN items |->
        [items[k] EXCEPT !.start = @ + start_offset, !.end = @ + start_offset]]

FailedResult(chunk_index) ==
    [chunk_index |-> chunk_index, segments |-> <<>>, words |-> <<>>,
     text |-> <<>>, success |-> FALSE]

\* a variant that returns the backend's chunk-local timestamps unchanged
TranscribeChunkSyncLocal(reply, chunk_index, start_offset) ==
    IF reply.kind \in {"raise", "empty", "bad_timestamp"}
    THEN FailedResult(chunk_index)
    ELSE [chunk_index |-> chunk_index, segments |-> reply.segments,
          words |-> reply.words, text |-> reply.text, success |-> TRUE]

TranscribeChunkSync(reply, chunk_index, start_offset) ==
    IF reply.kind \in {"raise", "empty", "bad_timestamp"}
    THEN FailedResult(chunk_index)
    ELSE [chunk_index |-> chunk_index,
          segments |-> AdjustTimestamps(reply.segments, start_offset),
          words |-> AdjustTimestamps(reply.words, start_offset),
          text |-> reply.text,
          success |-> TRUE]

(***************************************************************************)
(* transcribe_chunks_parallel: the results of gather, filtered             *)
(***************************************************************************)
\* gather returns the results in the order of the futures, that is by chunk
GatherResults(res, n) == [k \in 1..n |-> res[k - 1]]

\* a variant in which one failed chunk discards the results of all chunks
SuccessfulResultsAllOrNothing(res, n) ==
    IF \E k \in 1..n : ~GatherResults(res, n)[k].success
    THEN <<>>
    ELSE GatherResults(res, n)

SuccessfulResults(res, n) ==
    SelectSeq(GatherResults(res, n), LAMBDA r : r.success)

(***************************************************************************)
(* The merge of transcribe_audio_with_timestamps                           *)
(***************************************************************************)
\* list.sort(key=chunk_index): a stable insertion sort
RECURSIVE InsertByIndex(_, _)
InsertByIndex(sorted, r) ==
    IF sorted = <<>> THEN <<r>>
    ELSE IF Head(sorted).chunk_index <= r.chunk_index
         THEN <<Head(sorted)>> \o InsertByIndex(Tail(sorted), r)
         ELSE <<r>> \o sorted

\* a variant that sorts by descending chunk index (reverse=True)
SortByChunkIndexReversed(rs) ==
    LET RECURSIVE Ins(_, _)
        Ins(sorted, r) ==
            IF sorted = <<>> THEN <<r>>
            ELSE IF Head(sorted).chunk_index >= r.chunk_index
                 THEN <<Head(sorted)>> \o Ins(Tail(sorted), r)
                 ELSE <<r>> \o sorted
        RECURSIVE Srt(_)
        Srt(xs) == IF xs = <<>> THEN <<>>
                   ELSE Ins(Srt(SubSeq(xs, 1, Len(xs) - 1)), xs[Len(xs)])
    IN  Srt(rs)

RECURSIVE SortByChunkIndex(_)
SortByChunkIndex(rs) ==
    IF rs = <<>> THEN <<>>
    ELSE InsertByIndex(SortByChunkIndex(SubSeq(rs, 1, Len(rs) - 1)), rs[Len(rs)])

\* a variant that appends every chunk text after a space
AppendTextAlways(full_text, chunk_text) ==
    full_text \o <<Space>> \o chunk_text

\* full_text += " " + chunk_text, skipping empty chunk texts
AppendText(full_text, chunk_text) ==
    IF chunk_text = <<>> THEN full_text
    ELSE IF full_text # <<>> THEN full_text \o <<Space>> \o chunk_text
         ELSE chunk_text

RECURSIVE MergeSorted(_)
MergeSorted(rs) ==
    IF rs = <<>>
    THEN [text |-> <<>>, segments |-> <<>>, words |-> <<>>]
    ELSE LET m == MergeSorted(SubSeq(rs, 1, Len(rs) - 1))
             r == rs[Len(rs)]
         IN  [text |-> AppendText(m.text, r.text),
              segments |-> m.segments \o r.segments,
              words |-> m.words \o r.words]

MergeResults(chunk_results) == MergeSorted(SortByChunkIndex(chunk_results))

(***************************************************************************)
(* The caption fan-out: ZapCapService.process_video, one coroutine per     *)
(* clip, run together by process_clips_with_zapcap_parallel.               *)
(***************************************************************************)
\* an optional value: {} is None, {x} is x
Nothing == {}
Some(x) == {x}

\* save_upload_file: upload_{int(time.time())}{file_extension}; every clip file
\* is an .mp4, so the path depends on the second alone
UploadPath(now) == <<"upload", now>>

\* download_result_video: {name}_captioned_{timestamp}{ext}, name the clip's
ResultPath(c, now) == <<"captioned", c, now>>

\* the id the caption backend gives to an uploaded video: one per content
VideoId(content) == <<"video", content>>
TaskId(video_id) == <<"task", video_id>>

\* the statuses the backend may answer; "queued" stands for every status
\* outside the documented set (a missing status reads as "unknown")
Statuses == {"processing", "completed", "failed", "queued"}

\* how far the wall clock may be seen to jump between two steps
TickSteps == {check_interval, max_wait_time + 1}

\* a coroutine ZapCapService.process_video(upload_file) that has not run yet
NewTask ==
    [pc |-> "created", temp_file_path |-> Nothing, video_id |-> Nothing,
     task_id |-> Nothing, start_time |-> 0, wake |-> 0,
     log |-> <<>>, result |-> [pending |-> TRUE]]

\* finally: if temp_file_path and os.path.exists(temp_file_path): os.remove
RemoveUploadFile(dir, temp_file_path) ==
    [p \in (DOMAIN dir) \ temp_file_path |-> dir[p]]

\* the record of a call of the coroutine: which step, what the storage or
\* the backend answered, and how the coroutine went on
Logged(t, call, answer, then) ==
    [t EXCEPT !.log = Append(@, [call |-> call, answer |-> answer, then |-> then])]

\* the coroutine ends and its local variables with it; the calls it made
\* and what it returned or raised are kept
Ended(t, pc, result) ==
    [NewTask EXCEPT !.pc = pc, !.log = t.log, !.result = result]

\* upload_video's error when the saved copy is not on disk
FileNotFound == "Video file not found"

\* the coroutine raises
Raised(t, text) == Ended(t, "raised", [exception |-> text])

\* a variant of the wait loop that treats "failed" like a status in progress
WaitForCompletionStepFailedPolls(status, elapsed) ==
    IF status = "completed" THEN "return"
    ELSE IF status \in {"processing", "pending", "transcribing", "failed"}
         THEN IF elapsed > max_wait_time THEN "raise_timeout" ELSE "sleep"
         ELSE "sleep"

\* one turn of the loop of wait_for_completion on the status just read
WaitForCompletionStep(status, elapsed) ==
    IF status = "completed" THEN "return"
    ELSE IF status = "failed" THEN "raise_failed"
    ELSE IF status \in {"processing", "pending", "transcribing"}
         THEN IF elapsed > max_wait_time THEN "raise_timeout" ELSE "sleep"
         ELSE "sleep"

\* a variant that leaves the failed coroutines out of the mapping
ZapcapResultsSkipFailed(tasks, clips) ==
    [c \in { d \in clips : "exception" \notin DOMAIN tasks[d].result } |->
        [video_id |-> tasks[c].result.video_id,
         task_id |-> tasks[c].result.task_id,
         captioned_video_path |-> tasks[c].result.result_file_path]]

\* process_clips_with_zapcap_parallel, after gather(return_exceptions=True):
\* the mapping clip_number -> caption result or error text
ZapcapResults(tasks, clips) ==
    [c \in clips |->
        IF "exception" \in DOMAIN tasks[c].result
        THEN [error |-> tasks[c].result.exception]
        ELSE IF tasks[c].result.success
             THEN [video_id |-> tasks[c].result.video_id,
                   task_id |-> tasks[c].result.task_id,
                   captioned_video_path |-> tasks[c].result.result_file_path]
             ELSE [error |-> "Invalid response from ZapCap"]]

NoCaption == [zapcap_result |-> Nothing, zapcap_error |-> Nothing]

\* a variant that stores the mapping's entry as the result in every case
UpdateClipAlwaysResult(mapping, c) ==
    IF c \in DOMAIN mapping
    THEN [zapcap_result |-> Some(mapping[c]),
          zapcap_error |-> IF "error" \in DOMAIN mapping[c]
                           THEN Some(mapping[c].error) ELSE Nothing]
    ELSE NoCaption

\* AutoClipperService.process_video, "Update clips with ZapCap results"
UpdateClip(mapping, c) ==
    IF c \in DOMAIN mapping
    THEN IF "error" \in DOMAIN mapping[c]
         THEN [zapcap_result |-> Nothing, zapcap_error |-> Some(mapping[c].error)]
         ELSE [zapcap_result |-> Some(mapping[c]), zapcap_error |-> Nothing]
    ELSE NoCaption

Finished(t) == t.pc \in {"returned", "raised"}

\* step 6 of AutoClipperService.process_video begins: without clips the job
\* has raised before; without use_zapcap the report is returned at once;
\* otherwise one coroutine per clip is created and handed to gather
ProcessVideoStep6 ==
    /\ z_pc = "step6"
    /\ z_pc' = IF created_clips = {} THEN "raised"
               ELSE IF use_zapcap THEN "fanout" ELSE "reported"
    /\ UNCHANGED <<use_zapcap, created_clips, clock, ticks, upload_dir, results_dir,
                   task, zapcap_results, report>>
    /\ UNCHANGED <<tvars, svars, jvars, nvars, ovars>>

\* the wall clock advances
Tick ==
    /\ z_pc = "fanout"
    /\ \E c \in created_clips : ~Finished(task[c])
    /\ ticks < MaxTicks
    /\ \E d \in TickSteps : clock' = clock + d
    /\ ticks' = ticks + 1
    /\ UNCHANGED <<z_pc, use_zapcap, created_clips, upload_dir, results_dir,
                   task, zapcap_results, report>>
    /\ UNCHANGED <<tvars, svars, jvars, nvars, ovars>>

\* step 1, save_upload_file: the clip's bytes are written to the upload path
\* of the current second; a failure raises StorageError, after the file was
\* opened (and truncated) or before
SaveUploadFile(c) ==
    /\ z_pc = "fanout"
    /\ c \in created_clips
    /\ task[c].pc = "created"
    /\ LET path == UploadPath(clock)
           t == task[c]
       IN  \/ /\ task' = [task EXCEPT ![c] =
                    [Logged(t, "save", "ok", "continue") EXCEPT
                        !.pc = "saved", !.temp_file_path = Some(path)]]
              /\ upload_dir' = [p \in DOMAIN upload_dir \cup {path} |->
                                    IF p = path THEN c ELSE upload_dir[p]]
           \/ /\ task' = [task EXCEPT ![c] =
                    Raised(Logged(t, "save", "error", "raise"),
                           "Failed to save uploaded file")]
              /\ \/ UNCHANGED upload_dir
                 \/ upload_dir' = [p \in DOMAIN upload_dir \cup {path} |->
                                    IF p = path THEN 0 ELSE upload_dir[p]]
    /\ UNCHANGED <<z_pc, use_zapcap, created_clips, clock, ticks, results_dir,
                   zapcap_results, report>>
    /\ UNCHANGED <<tvars, svars, jvars, nvars, ovars>>

\* step 2, upload_video: raises when the saved file is not there; otherwise
\* the file's bytes are uploaded and the backend answers with a video id, or
\* the upload raises.  Every raise runs the finally clause of process_video.
UploadVideo(c) ==
    /\ z_pc = "fanout"
    /\ c \in created_clips
    /\ task[c].pc = "saved"
    /\ LET t == task[c]
           path == CHOOSE p \in t.temp_file_path : TRUE
       IN  IF path \notin DOMAIN upload_dir
           THEN /\ task' = [task EXCEPT ![c] = Raised(t, FileNotFound)]
                /\ UNCHANGED upload_dir
           ELSE \/ /\ task' = [task EXCEPT ![c] =
                         [Logged(t, "upload", "ok", "continue") EXCEPT
                             !.pc = "uploaded",
                             !.video_id = Some(VideoId(upload_dir[path]))]]
                   /\ UNCHANGED upload_dir
                \/ /\ task' = [task EXCEPT ![c] =
                         Raised(Logged(t, "upload", "error", "raise"), "Upload error")]
                   /\ upload_dir' = RemoveUploadFile(upload_dir, t.temp_file_path)
    /\ UNCHANGED <<z_pc, use_zapcap, created_clips, clock, ticks, results_dir,
                   zapcap_results, report>>
    /\ UNCHANGED <<tvars, svars, jvars, nvars, ovars>>

\* step 3, create_caption_task, and the entry of wait_for_completion
\* (start_time = time.time())
CreateCaptionTask(c) ==
    /\ z_pc = "fanout"
    /\ c \in created_clips
    /\ task[c].pc = "uploaded"
    /\ LET t == task[c]
           video_id == CHOOSE v \in t.video_id : TRUE
       IN  \/ /\ task' = [task EXCEPT ![c] =
                    [Logged(t, "create", "ok", "continue") EXCEPT
                        !.pc = "waiting", !.task_id = Some(TaskId(video_id)),
                        !.start_time = clock, !.wake = clock]]
              /\ UNCHANGED upload_dir
           \/ /\ task' = [task EXCEPT ![c] =
                    Raised(Logged(t, "create", "error", "raise"), "Task creation error")]
              /\ upload_dir' = RemoveUploadFile(upload_dir, t.temp_file_path)
    /\ UNCHANGED <<z_pc, use_zapcap, created_clips, clock, ticks, results_dir,
                   zapcap_results, report>>
    /\ UNCHANGED <<tvars, svars, jvars, nvars, ovars>>

\* step 4, one turn of wait_for_completion: check_caption_status answers (or
\* raises), then the loop returns, raises or sleeps check_interval seconds;
\* step 5: a completed status without downloadUrl raises
CheckCaptionStatus(c) ==
    /\ z_pc = "fanout"
    /\ c \in created_clips
    /\ task[c].pc = "waiting"
    /\ clock >= task[c].wake
    /\ LET t == task[c]
       IN  \/ /\ task' = [task EXCEPT ![c] =
                    Raised(Logged(t, "poll", "error", "raise"), "Status check error")]
              /\ upload_dir' = RemoveUploadFile(upload_dir, t.temp_file_path)
           \/ \E status \in Statuses, has_url \in BOOLEAN :
                LET loop == WaitForCompletionStep(status, clock - t.start_time)
                    step == IF loop = "return" /\ ~has_url THEN "raise_no_url" ELSE loop
                    polled == Logged(t, "poll", status, step)
                IN  /\ (status # "completed") => has_url
                    /\ IF step = "sleep"
                       THEN /\ task' = [task EXCEPT ![c] =
                                  [polled EXCEPT !.wake = clock + check_interval]]
                            /\ UNCHANGED upload_dir
                       ELSE IF step = "return"
                       THEN /\ task' = [task EXCEPT ![c] = [polled EXCEPT !.pc = "completed"]]
                            /\ UNCHANGED upload_dir
                       ELSE /\ task' = [task EXCEPT ![c] =
                                  Raised(polled,
                                         IF step = "raise_failed" THEN "Captioning failed"
                                         ELSE IF step = "raise_timeout"
                                              THEN "Captioning process timed out"
                                              ELSE "Download URL not found in response")]
                            /\ upload_dir' = RemoveUploadFile(upload_dir, t.temp_file_path)
    /\ UNCHANGED <<z_pc, use_zapcap, created_clips, clock, ticks, results_dir,
                   zapcap_results, report>>
    /\ UNCHANGED <<tvars, svars, jvars, nvars, ovars>>

\* step 6, download_result_video, and the return of process_video
DownloadResultVideo(c) ==
    /\ z_pc = "fanout"
    /\ c \in created_clips
    /\ task[c].pc = "completed"
    /\ LET t == task[c]
           result_path == ResultPath(c, clock)
       IN  \/ /\ task' = [task EXCEPT ![c] =
                    Ended(Logged(t, "download", "ok", "return"), "returned",
                          [success |-> TRUE,
                           video_id |-> CHOOSE v \in t.video_id : TRUE,
                           task_id |-> CHOOSE k \in t.task_id : TRUE,
                           result_file_path |-> result_path])]
              /\ results_dir' = results_dir \cup {result_path}
           \/ /\ task' = [task EXCEPT ![c] =
                    Raised(Logged(t, "download", "error", "raise"),
                           "Failed to download result video")]
              /\ UNCHANGED results_dir
    /\ upload_dir' = RemoveUploadFile(upload_dir, task[c].temp_file_path)
    /\ UNCHANGED <<z_pc, use_zapcap, created_clips, clock, ticks,
                   zapcap_results, report>>
    /\ UNCHANGED <<tvars, svars, jvars, nvars, ovars>>

\* gather returns when every coroutine has finished; the mapping is built,
\* the clips are updated from it and process_video returns the report
GatherAndReport ==
    /\ z_pc = "fanout"
    /\ \A c \in created_clips : Finished(task[c])
    /\ LET mapping == ZapcapResults(task, created_clips)
       IN  /\ zapcap_results' = mapping
           /\ report' = [c \in created_clips |-> UpdateClip(mapping, c)]
    /\ z_pc' = "reported"
    /\ UNCHANGED <<use_zapcap, created_clips, clock, ticks, upload_dir, results_dir, task>>
    /\ UNCHANGED <<tvars, svars, jvars, nvars, ovars>>

CaptionStart ==
    /\ z_pc = "step6"
    /\ use_zapcap \in BOOLEAN
    /\ created_clips \in SUBSET (1..MaxClips)
    /\ clock = 0
    /\ ticks = 0
    /\ upload_dir = <<>>
    /\ results_dir = {}
    /\ task = [c \in created_clips |-> NewTask]
    /\ zapcap_results = <<>>
    /\ report = [c \in created_clips |-> NoCaption]

\* no caption job: the state of a process that only transcribes
CaptionIdle ==
    /\ z_pc = "idle"
    /\ use_zapcap = FALSE
    /\ created_clips = {}
    /\ clock = 0
    /\ ticks = 0
    /\ upload_dir = <<>>
    /\ results_dir = {}
    /\ task = <<>>
    /\ zapcap_results = <<>>
    /\ report = <<>>

\* no transcription job
TranscribeIdle ==
    /\ t_pc = "idle"
    /\ file_size = 0
    /\ total_duration = 0
    /\ chunk_info = <<>>
    /\ temp_dir = {}
    /\ dispatched = 0
    /\ backend = <<>>
    /\ results = <<>>
    /\ completed = <<>>
    /\ transcript = NoTranscript

\* no clipping job
JobIdle ==
    /\ j_pc = "idle"
    /\ video_input = [kind |-> "none"]
    /\ temp_files = {}
    /\ disk = {}
    /\ clip_segments = <<>>
    /\ seg_i = 0
    /\ render_calls = {}
    /\ job_clips = <<>>
    /\ outcome = NoOutcome

\* no second job
NamesIdle ==
    /\ wall_clock = 0
    /\ job = <<>>
    /\ files = <<>>

\* no operation on the task registry yet
NoAccess == [op |-> "none", task_id |-> 0, locked |-> FALSE]
NoReturn == [kind |-> "none", value |-> <<>>]

\* an empty registry with its lock free
RegistryIdle ==
    /\ registry = <<>>
    /\ lock = FALSE
    /\ last_access = NoAccess
    /\ returned = NoReturn

NoProbe ==
    [kind |-> "none", has_video |-> FALSE, width |-> 0, height |-> 0, has_audio |-> FALSE]
NoVideoInfo ==
    [kind |-> "none", type |-> "none", width |-> 0, height |-> 0, has_audio |-> FALSE]
NoClipResult == [kind |-> "none", type |-> "none"]

\* no render
RenderIdle ==
    /\ v_pc = "idle"
    /\ clip_request = [start_time |-> 0, end_time |-> 0, aspect_ratio |-> "none"]
    /\ probe = NoProbe
    /\ video_info = NoVideoInfo
    /\ ffmpeg_cmd = Nothing
    /\ returncode = Nothing
    /\ output_exists = FALSE
    /\ clip_result = NoClipResult

NoUploadResult == [kind |-> "none", text |-> "none"]

\* no upload
UploadIdle ==
    /\ u_pc = "idle"
    /\ upload_size = 0
    /\ presigned_urls = 0
    /\ requests = <<>>
    /\ uploaded_parts = <<>>
    /\ upload_result = NoUploadResult

\* time_to_seconds not called
ParseIdle ==
    /\ p_pc = "idle"
    /\ time_str = <<>>
    /\ seconds = 0

\* no request at the endpoints
ApiIdle ==
    /\ api_log = <<>>
    /\ scheduled = <<>>
    /\ saved_uploads = {}

\* no coroutine on the event loop
LoopIdle ==
    /\ loop_thread = 0
    /\ l_pc = <<>>
    /\ reads = 0

RestIdle == ParseIdle /\ ApiIdle /\ LoopIdle

OthersIdle == RegistryIdle /\ RenderIdle /\ UploadIdle /\ RestIdle

\* the Settings as they are without an environment override
DefaultSettings == settings = [max_concurrent_chunks |-> max_concurrent_chunks]

CaptionInit ==
    /\ CaptionStart
    /\ TranscribeIdle /\ DefaultSettings /\ JobIdle /\ NamesIdle /\ OthersIdle

CaptionNext ==
    \/ ProcessVideoStep6
    \/ Tick
    \/ \E c \in 1..MaxClips : SaveUploadFile(c)
    \/ \E c \in 1..MaxClips : UploadVideo(c)
    \/ \E c \in 1..MaxClips : CreateCaptionTask(c)
    \/ \E c \in 1..MaxClips : CheckCaptionStatus(c)
    \/ \E c \in 1..MaxClips : DownloadResultVideo(c)
    \/ GatherAndReport

CaptionSpec == CaptionInit /\ [][CaptionNext]_vars

(***************************************************************************)
(* The inputs of a transcription job.                                      *)
(***************************************************************************)
\* sizes at and just above every multiple of the chunk size
FileSizes ==
    { k * max_transcription_chunk_size + d : k \in 0..(MaxChunks - 1), d \in {0, 1} }

\* 0 is also what get_audio_duration returns when ffprobe fails
Durations == {0, MaxDuration}

TranscribeStart ==
    /\ t_pc = "start"
    /\ file_size \in FileSizes
    /\ total_duration \in Durations
    /\ chunk_info = <<>>
    /\ temp_dir = {}
    /\ dispatched = 0
    /\ backend = <<>>
    /\ results = <<>>
    /\ completed = <<>>
    /\ transcript = NoTranscript

\* Settings.max_concurrent_chunks is read from the environment; 5 is its default
ConcurrencyLimits == {1, 2, max_concurrent_chunks}

TranscribeInit ==
    /\ TranscribeStart
    /\ settings \in [max_concurrent_chunks : ConcurrencyLimits]
    /\ CaptionIdle /\ JobIdle /\ NamesIdle /\ OthersIdle

NChunks == Len(chunk_info)
ChunkIndexes == 0..(NChunks - 1)

\* transcribe_audio_with_timestamps, up to the split.  fail_at is the chunk
\* whose ffmpeg call fails (num_chunks: none fails); the chunk files made
\* before it stay in the temp directory and the job raises.
SplitAudio ==
    /\ t_pc = "start"
    /\ LET chunks == SplitAudioForTranscription(file_size, total_duration)
           n == Len(chunks)
       IN  \E fail_at \in 0..n :
             IF n > 1 /\ fail_at < n
             THEN /\ t_pc' = "raised"
                  /\ temp_dir' = { ChunkPath(i) : i \in 0..(fail_at - 1) }
                  /\ UNCHANGED <<chunk_info, backend, results>>
             ELSE /\ fail_at = n
                  /\ t_pc' = IF n = 1 THEN "single" ELSE "transcribing"
                  /\ chunk_info' = chunks
                  /\ temp_dir' = IF n = 1 THEN {} ELSE { ChunkPath(i) : i \in 0..(n - 1) }
                  /\ backend' = [i \in 0..(n - 1) |-> NotCalled]
                  /\ results' = [i \in 0..(n - 1) |-> Pending]
    /\ UNCHANGED <<file_size, total_duration, dispatched, completed, transcript>>
    /\ UNCHANGED <<zvars, svars, jvars, nvars, ovars>>

\* a result that keeps the text and the segments and drops the words
SingleFileResultWithoutWords(reply) ==
    [kind |-> "single", text |-> reply.text, segments |-> reply.segments,
     words |-> <<>>]

\* result = transcript.model_dump(): the backend's answer, nothing shifted
SingleFileResult(reply) ==
    [kind |-> "single", text |-> reply.text, segments |-> reply.segments,
     words |-> reply.words]

\* the single-file branch: the backend's answer is returned as it is
TranscribeSingle ==
    /\ t_pc = "single"
    /\ \E reply \in BackendReplies(0, chunk_info[1].duration) :
         /\ reply.kind # "bad_timestamp"
         /\ backend' = [backend EXCEPT ![0] = reply]
         /\ IF reply.kind = "raise"
            THEN /\ t_pc' = "raised"
                 /\ UNCHANGED transcript
            ELSE /\ t_pc' = "returned"
                 /\ transcript' = SingleFileResult(reply)
    /\ UNCHANGED <<file_size, total_duration, chunk_info, temp_dir, dispatched,
                   results, completed>>
    /\ UNCHANGED <<zvars, svars, jvars, nvars, ovars>>

\* max_workers = min(max_concurrent_chunks, len(chunk_info))
\* a pool with one thread per chunk, whatever the setting
MaxWorkersPerChunk == NChunks

\* max_workers = min(self.settings.max_concurrent_chunks, len(chunk_info))
MaxWorkers == Min(settings.max_concurrent_chunks, NChunks)

InFlight == { i \in ChunkIndexes : i < dispatched /\ results[i] = Pending }

\* a worker thread takes the next queued chunk (the executor's queue is FIFO)
StartChunk ==
    /\ t_pc = "transcribing"
    /\ dispatched < NChunks
    /\ Cardinality(InFlight) < MaxWorkers
    /\ dispatched' = dispatched + 1
    /\ UNCHANGED <<t_pc, file_size, total_duration, chunk_info, temp_dir,
                   backend, results, completed, transcript>>
    /\ UNCHANGED <<zvars, svars, jvars, nvars, ovars>>

\* transcribe_chunk_sync of chunk i returns, in any order among the chunks
FinishChunk(i) ==
    /\ t_pc = "transcribing"
    /\ i \in InFlight
    /\ \E reply \in BackendReplies(i, chunk_info[i + 1].duration) :
         /\ backend' = [backend EXCEPT ![i] = reply]
         /\ results' = [results EXCEPT ![i] =
                TranscribeChunkSync(reply, i, chunk_info[i + 1].start_offset)]
    /\ completed' = Append(completed, i)
    /\ UNCHANGED <<t_pc, file_size, total_duration, chunk_info, temp_dir,
                   dispatched, transcript>>
    /\ UNCHANGED <<zvars, svars, jvars, nvars, ovars>>

\* gather returns; the successful results are merged, the chunk files removed
MergeChunks ==
    /\ t_pc = "transcribing"
    /\ \A i \in ChunkIndexes : results[i] # Pending
    /\ LET chunk_results == SuccessfulResults(results, NChunks)
       IN  IF chunk_results = <<>>
           THEN /\ t_pc' = "raised"
                /\ UNCHANGED <<temp_dir, transcript>>
           ELSE /\ t_pc' = "returned"
                /\ temp_dir' = {}
                /\ transcript' = [kind |-> "merged"] @@ MergeResults(chunk_results)
    /\ UNCHANGED <<file_size, total_duration, chunk_info, dispatched, backend,
                   results, completed>>
    /\ UNCHANGED <<zvars, svars, jvars, nvars, ovars>>

TranscribeNext ==
    \/ SplitAudio
    \/ TranscribeSingle
    \/ StartChunk
    \/ \E i \in 0..(MaxChunks - 1) : FinishChunk(i)
    \/ MergeChunks

TranscribeSpec == TranscribeInit /\ [][TranscribeNext]_vars

\* the executor hands a queued chunk to a free worker thread, and a call of
\* the transcription backend ends (the client's request timeout at the latest)
TranscribeFairness ==
    /\ WF_vars(StartChunk)
    /\ \A i \in 0..(MaxChunks - 1) : WF_vars(FinishChunk(i))

TranscribeFairSpec == TranscribeSpec /\ TranscribeFairness

(***************************************************************************)
(* One clipping job: AutoClipperService.process_video, steps 1 to 6 and    *)
(* its finally clause.  Transcription and the caption fan-out are taken    *)
(* here by their outcomes and by the files they leave behind.              *)
(***************************************************************************)
\* Settings.min_clip_duration and Settings.max_clip_duration, seconds
min_clip_duration == 10
max_clip_duration == 120

\* the largest number of candidates the selector returns
MaxSegments == 3

\* a file of the job: its directory, what it is, its index and the second its
\* name was made in
FilePath(dir, stem, index, timestamp) ==
    [dir |-> dir, stem |-> stem, index |-> index, timestamp |-> timestamp]

\* VideoProcessingService.save_upload_file: temp_dir/upload_<timestamp><ext>
TempUploadPath(timestamp) == FilePath("temp", "upload", 0, timestamp)
\* download_social_media_video: the video and the metrics file of post_dir
DownloadedVideoPath == FilePath("temp", "post_dir/video", 0, 0)
MetricsPath(timestamp) == FilePath("temp", "post_dir/metrics", 0, timestamp)
\* extract_audio_from_video: temp_dir/audio_<timestamp>.wav
ExtractedAudioPath(timestamp) == FilePath("temp", "audio", 0, timestamp)
\* split_audio_for_transcription: temp_dir/audio_chunk_<i>_<timestamp>.wav
AudioChunkPath(i, timestamp) == FilePath("temp", "audio_chunk", i, timestamp)
\* process_video: clips_dir/clip_<timestamp>_<i+1>_<safe_title>.mp4
ClipFilePath(timestamp, i, safe_title) == FilePath("clips", safe_title, i + 1, timestamp)
\* ZapCapService.save_upload_file: upload_dir/upload_<timestamp><ext>
CaptionUploadPath(timestamp) == FilePath("uploads", "upload", 0, timestamp)
\* download_result_video: results_dir/<clip name>_captioned_<timestamp><ext>
CaptionedPath(clip_number, timestamp) == FilePath("results", "captioned", clip_number, timestamp)

\* a reading of two parts as hours and minutes
time_to_seconds_as_hours(parts) ==
    IF Len(parts) = 2 THEN parts[1] * 3600 + parts[2] * 60
    ELSE IF Len(parts) = 3 THEN parts[1] * 3600 + parts[2] * 60 + parts[3]
    ELSE IF Len(parts) = 1 THEN parts[1]
    ELSE 0

\* VideoProcessingService.time_to_seconds; a label is the sequence of the
\* numbers between its colons, and a label that cannot be read gives 0
time_to_seconds(parts) ==
    IF Len(parts) = 2 THEN parts[1] * 60 + parts[2]
    ELSE IF Len(parts) = 3 THEN parts[1] * 3600 + parts[2] * 60 + parts[3]
    ELSE IF Len(parts) = 1 THEN parts[1]
    ELSE 0

\* clip_duration = end_seconds - start_seconds
ClipDuration(segment) ==
    time_to_seconds(segment.end_time) - time_to_seconds(segment.start_time)

\* the bounds taken as open ends
InClipRangeExclusive(clip_duration) ==
    ~(clip_duration <= min_clip_duration \/ clip_duration >= max_clip_duration)

\* the duration filter of the clip loop: its negated skip condition
InClipRange(clip_duration) ==
    ~(clip_duration < min_clip_duration \/ clip_duration > max_clip_duration)

\* the candidates of the model: durations 9, 10, 45, 120 and 121 seconds
EndLabels == { <<0, 9>>, <<0, 10>>, <<0, 45>>, <<2, 0>>, <<0, 2, 1>> }
Candidates == { [start_time |-> <<0, 0>>, end_time |-> e, title |-> "t"] : e \in EndLabels }
CandidateLists == UNION { [1..n -> Candidates] : n \in 0..MaxSegments }

VideoInputKinds == {"upload", "url", "path"}


\* sum(clip['duration'] for clip in created_clips)
RECURSIVE SumOfDurations(_)
SumOfDurations(created) ==
    IF created = <<>> THEN 0
    ELSE created[1].duration + SumOfDurations(Tail(created))

\* a summary that counts the last clip only
ReturnedReportOfLastClip(created, with_zapcap) ==
    [kind |-> "returned", type |-> "report", total_clips |-> Len(created),
     processing_summary |->
        [clips_created |-> Len(created),
         total_clip_duration |-> created[Len(created)].duration,
         zapcap_processed |-> with_zapcap]]

\* the result process_video returns: the clips are in job_clips
ReturnedReport(created, with_zapcap) ==
    [kind |-> "returned", type |-> "report", total_clips |-> Len(created),
     processing_summary |->
        [clips_created |-> Len(created),
         total_clip_duration |-> SumOfDurations(created),
         zapcap_processed |-> with_zapcap]]

RaisedError(type) ==
    [kind |-> "raised", type |-> type, total_clips |-> 0,
     processing_summary |-> NoSummary]

\* the finally clause skipped
CleanUpTempFilesSkipped(files_on_disk, paths) == files_on_disk

\* the finally clause of process_video: every path of temp_files is removed
CleanUpTempFiles(files_on_disk, paths) == files_on_disk \ paths

\* process_video leaves by an exception of the given type; the finally clause
\* runs on what is on the disk then
RaiseFromJob(type, files_on_disk) ==
    /\ j_pc' = "raised"
    /\ outcome' = RaisedError(type)
    /\ disk' = CleanUpTempFiles(files_on_disk, temp_files)
    /\ UNCHANGED temp_files

\* process_video returns the report; the finally clause runs
ReturnFromJob(created, files_on_disk) ==
    /\ j_pc' = "returned"
    /\ outcome' = ReturnedReport(created, video_input.use_zapcap)
    /\ job_clips' = created
    /\ disk' = CleanUpTempFiles(files_on_disk, temp_files)
    /\ UNCHANGED temp_files

JobStart ==
    /\ j_pc = "start"
    /\ video_input \in [kind : VideoInputKinds, use_zapcap : BOOLEAN]
    /\ temp_files = {}
    /\ disk = {}
    /\ clip_segments = <<>>
    /\ seg_i = 0
    /\ render_calls = {}
    /\ job_clips = <<>>
    /\ outcome = NoOutcome

\* step 1.  An upload is saved (StorageError when that fails, before or after
\* the file was opened); a URL is downloaded into its post directory together
\* with a metrics file (the metrics are written also when no video file was
\* found); a path is used as it is when it exists.
GetVideoFile ==
    /\ j_pc = "start"
    /\ \/ /\ video_input.kind = "upload"
          /\ \/ /\ j_pc' = "info"
                /\ temp_files' = {TempUploadPath(0)}
                /\ disk' = disk \cup {TempUploadPath(0)}
                /\ UNCHANGED outcome
             \/ \E written \in SUBSET {TempUploadPath(0)} :
                    RaiseFromJob("StorageError", disk \cup written)
       \/ /\ video_input.kind = "url"
          /\ \/ /\ j_pc' = "info"
                /\ temp_files' = {DownloadedVideoPath}
                /\ disk' = disk \cup {DownloadedVideoPath, MetricsPath(0)}
                /\ UNCHANGED outcome
             \/ \E written \in SUBSET {MetricsPath(0)} :
                    RaiseFromJob("VideoProcessingError", disk \cup written)
       \/ /\ video_input.kind = "path"
          /\ \/ /\ j_pc' = "info"
                /\ UNCHANGED <<temp_files, disk, outcome>>
             \/ RaiseFromJob("VideoProcessingError", disk)
    /\ UNCHANGED <<video_input, clip_segments, seg_i, render_calls, job_clips>>
    /\ UNCHANGED <<tvars, zvars, svars, nvars, ovars>>

\* step 2, get_video_info: ffprobe answers or VideoProcessingError
GetVideoInfo ==
    /\ j_pc = "info"
    /\ \/ /\ j_pc' = "transcribe"
          /\ UNCHANGED <<temp_files, disk, outcome>>
       \/ RaiseFromJob("VideoProcessingError", disk)
    /\ UNCHANGED <<video_input, clip_segments, seg_i, render_calls, job_clips>>
    /\ UNCHANGED <<tvars, zvars, svars, nvars, ovars>>

\* what transcribe_video does to the job: whether it returned a transcript,
\* and which files it left in the temp directory.  The extracted audio file
\* is removed by its own finally clause; the chunk files are removed only
\* after a merge.
TranscriptionOutcomes ==
    { [ok |-> TRUE,  kind |-> "single",            left |-> {}],
      [ok |-> TRUE,  kind |-> "merged",            left |-> {}],
      [ok |-> FALSE, kind |-> "extract_failed",    left |-> {}],
      [ok |-> FALSE, kind |-> "single_raised",     left |-> {}],
      [ok |-> FALSE, kind |-> "split_failed",      left |-> {AudioChunkPath(0, 0)}],
      [ok |-> FALSE, kind |-> "all_chunks_failed",
       left |-> {AudioChunkPath(0, 0), AudioChunkPath(1, 0)}] }

\* step 3, transcribe_video
TranscribeVideo ==
    /\ j_pc = "transcribe"
    /\ \E o \in TranscriptionOutcomes :
         IF o.ok
         THEN /\ j_pc' = "analyze"
              /\ disk' = disk \cup o.left
              /\ UNCHANGED <<temp_files, outcome>>
         ELSE RaiseFromJob("TranscriptionError", disk \cup o.left)
    /\ UNCHANGED <<video_input, clip_segments, seg_i, render_calls, job_clips>>
    /\ UNCHANGED <<tvars, zvars, svars, nvars, ovars>>

\* step 4, analyze_clip_segments: the selector fails, or answers a list of
\* candidates; an empty list raises
AnalyzeClipSegments ==
    /\ j_pc = "analyze"
    /\ \/ /\ RaiseFromJob("ContentAnalysisError", disk)
          /\ UNCHANGED clip_segments
       \/ \E candidates \in CandidateLists :
            /\ clip_segments' = candidates
            /\ IF candidates = <<>>
               THEN RaiseFromJob("ContentAnalysisError", disk)
               ELSE /\ j_pc' = "clips"
                    /\ UNCHANGED <<temp_files, disk, outcome>>
    /\ UNCHANGED <<video_input, seg_i, render_calls, job_clips>>
    /\ UNCHANGED <<tvars, zvars, svars, nvars, ovars>>

\* the clip_info of candidate i (0-based)
ClipInfo(i, segment, clip_duration) ==
    [clip_number |-> i + 1, start_time |-> segment.start_time,
     end_time |-> segment.end_time, duration |-> clip_duration,
     file_path |-> ClipFilePath(0, i, segment.title), caption |-> NoCaption]

\* step 5, one turn of the clip loop: a candidate outside the duration bounds
\* is skipped; the others are rendered by create_video_clip, whose exception
\* is not caught in the loop
ClipLoopStep ==
    /\ j_pc = "clips"
    /\ seg_i < Len(clip_segments)
    /\ LET i == seg_i
           segment == clip_segments[i + 1]
           clip_duration == ClipDuration(segment)
       IN  IF ~InClipRange(clip_duration)
           THEN /\ seg_i' = seg_i + 1
                /\ UNCHANGED <<j_pc, temp_files, disk, render_calls, job_clips, outcome>>
           ELSE /\ render_calls' = render_calls \cup {i}
                /\ \/ /\ disk' = disk \cup {ClipFilePath(0, i, segment.title)}
                      /\ job_clips' = Append(job_clips, ClipInfo(i, segment, clip_duration))
                      /\ seg_i' = seg_i + 1
                      /\ UNCHANGED <<j_pc, temp_files, outcome>>
                   \/ /\ RaiseFromJob("VideoProcessingError", disk)
                      /\ UNCHANGED <<seg_i, job_clips>>
    /\ UNCHANGED <<video_input, clip_segments>>
    /\ UNCHANGED <<tvars, zvars, svars, nvars, ovars>>

\* after the loop: no clip raises; without use_zapcap the report is returned
AfterClipLoop ==
    /\ j_pc = "clips"
    /\ seg_i = Len(clip_segments)
    /\ IF job_clips = <<>>
       THEN /\ RaiseFromJob("VideoProcessingError", disk)
            /\ UNCHANGED job_clips
       ELSE IF video_input.use_zapcap
            THEN /\ j_pc' = "caption"
                 /\ UNCHANGED <<temp_files, disk, job_clips, outcome>>
            ELSE ReturnFromJob(job_clips, disk)
    /\ UNCHANGED <<video_input, clip_segments, seg_i, render_calls>>
    /\ UNCHANGED <<tvars, zvars, svars, nvars, ovars>>

\* how the caption task of one clip ends for the job: a captioned file in the
\* results directory; an error with its upload copy removed; or an error of
\* save_upload_file after the copy was opened, which nothing removes
CaptionOutcomes == {"captioned", "error", "save_failed"}

\* the finished coroutine of clip c
FinishedTask(c, o) ==
    [result |-> IF o = "captioned"
                THEN [success |-> TRUE, video_id |-> VideoId(c),
                      task_id |-> TaskId(VideoId(c)),
                      result_file_path |-> CaptionedPath(c, 0)]
                ELSE [exception |-> "ZapCapError"]]

\* the files the caption task of clip c leaves
CaptionFiles(c, o) ==
    IF o = "captioned" THEN {CaptionedPath(c, 0)}
    ELSE IF o = "save_failed" THEN {CaptionUploadPath(0)}
    ELSE {}

\* step 6 with use_zapcap: every clip is captioned, the mapping is folded into
\* the clips, the report is returned
CaptionClips ==
    /\ j_pc = "caption"
    /\ \E o \in [DOMAIN job_clips -> CaptionOutcomes] :
         LET number(p) == job_clips[p].clip_number
             numbers == { number(p) : p \in DOMAIN job_clips }
             position(c) == CHOOSE p \in DOMAIN job_clips : number(p) = c
             tasks == [c \in numbers |-> FinishedTask(c, o[position(c)])]
             mapping == ZapcapResults(tasks, numbers)
             updated == [p \in DOMAIN job_clips |->
                            [job_clips[p] EXCEPT !.caption = UpdateClip(mapping, number(p))]]
             left == UNION { CaptionFiles(number(p), o[p]) : p \in DOMAIN job_clips }
         IN  ReturnFromJob(updated, disk \cup left)
    /\ UNCHANGED <<video_input, clip_segments, seg_i, render_calls>>
    /\ UNCHANGED <<tvars, zvars, svars, nvars, ovars>>

JobInit ==
    /\ JobStart
    /\ TranscribeIdle /\ CaptionIdle /\ DefaultSettings /\ NamesIdle /\ OthersIdle

JobNext ==
    \/ GetVideoFile
    \/ GetVideoInfo
    \/ TranscribeVideo
    \/ AnalyzeClipSegments
    \/ ClipLoopStep
    \/ AfterClipLoop
    \/ CaptionClips

JobSpec == JobInit /\ [][JobNext]_vars

(***************************************************************************)
(* Several jobs of one process and the names of their files.  The jobs are *)
(* coroutines of one event loop: a job runs alone between two of its       *)
(* awaits, and the wall clock may or may not have moved on to the next     *)
(* second when another job runs.                                           *)
(***************************************************************************)
\* the jobs running at the same time
MaxJobs == 2
\* how many seconds the wall clock is seen to advance
MaxSeconds == 2

Jobs == 1..MaxJobs
Titles == {"a", "b"}

\* a job that has not started: the paths it holds are none
NewJob(title) ==
    [pc |-> "start", title |-> title, upload |-> {}, audio |-> {}, chunks |-> {},
     clip |-> {}]

\* the paths a job has created and not removed
Held(j) == job[j].upload \cup job[j].audio \cup job[j].chunks \cup job[j].clip

\* open(path, 'wb') or ffmpeg -y: the path now holds what job j wrote
WriteFiles(dir, paths, j) ==
    [p \in DOMAIN dir \cup paths |-> IF p \in paths THEN j ELSE dir[p]]

\* os.remove of every path that exists
RemoveFiles(dir, paths) == [p \in DOMAIN dir \ paths |-> dir[p]]

\* the rest of a job once its transcript is there: the chunk files and the
\* extracted audio are removed, the clip is rendered under the name of the
\* current second, and the finally clause removes the saved upload
FinishJob(dir, j, r, timestamp) ==
    LET clip_path == ClipFilePath(timestamp, 0, r.title)
    IN  [dir |-> RemoveFiles(WriteFiles(RemoveFiles(dir, r.chunks \cup r.audio),
                                        {clip_path}, j),
                             r.upload),
         job |-> [r EXCEPT !.pc = "done", !.upload = {}, !.audio = {},
                           !.chunks = {}, !.clip = {clip_path}]]

NamesStart ==
    /\ wall_clock = 0
    /\ \E titles \in [Jobs -> Titles] : job = [j \in Jobs |-> NewJob(titles[j])]
    /\ files = <<>>

\* the wall clock reaches the next second
NextSecond ==
    /\ wall_clock < MaxSeconds
    /\ \E j \in Jobs : job[j].pc # "done"
    /\ wall_clock' = wall_clock + 1
    /\ UNCHANGED <<job, files>>
    /\ UNCHANGED <<tvars, zvars, svars, jvars, ovars>>

\* VideoProcessingService.save_upload_file: the upload of job j is written to
\* the path of the current second
SaveJobUpload(j) ==
    /\ job[j].pc = "start"
    /\ LET path == TempUploadPath(wall_clock)
       IN  /\ files' = WriteFiles(files, {path}, j)
           /\ job' = [job EXCEPT ![j].pc = "saved", ![j].upload = {path}]
    /\ UNCHANGED wall_clock
    /\ UNCHANGED <<tvars, zvars, svars, jvars, ovars>>

\* transcribe_video up to its first await: the audio is extracted to the path
\* of the current second; a large audio is split into chunk files and the job
\* waits for the parallel transcription; a small one is transcribed at once
\* and the job runs to its end
ExtractAndSplit(j) ==
    /\ job[j].pc = "saved"
    /\ LET audio == ExtractedAudioPath(wall_clock)
           chunk_paths == { AudioChunkPath(i, wall_clock) : i \in 0..1 }
       IN  \/ /\ files' = WriteFiles(files, {audio} \cup chunk_paths, j)
              /\ job' = [job EXCEPT ![j].pc = "transcribing", ![j].audio = {audio},
                                    ![j].chunks = chunk_paths]
           \/ LET done == FinishJob(WriteFiles(files, {audio}, j), j,
                                    [job[j] EXCEPT !.audio = {audio}], wall_clock)
              IN  /\ files' = done.dir
                  /\ job' = [job EXCEPT ![j] = done.job]
    /\ UNCHANGED wall_clock
    /\ UNCHANGED <<tvars, zvars, svars, jvars, ovars>>

\* the parallel transcription is over: merge, clean-up, clip, finally clause
MergeAndClip(j) ==
    /\ job[j].pc = "transcribing"
    /\ LET done == FinishJob(files, j, job[j], wall_clock)
       IN  /\ files' = done.dir
           /\ job' = [job EXCEPT ![j] = done.job]
    /\ UNCHANGED wall_clock
    /\ UNCHANGED <<tvars, zvars, svars, jvars, ovars>>

NamesInit ==
    /\ NamesStart
    /\ TranscribeIdle /\ CaptionIdle /\ DefaultSettings /\ JobIdle /\ OthersIdle

NamesNext ==
    \/ NextSecond
    \/ \E j \in Jobs : SaveJobUpload(j)
    \/ \E j \in Jobs : ExtractAndSplit(j)
    \/ \E j \in Jobs : MergeAndClip(j)

NamesSpec == NamesInit /\ [][NamesNext]_vars

(***************************************************************************)
(* The task registry: TaskManager of app/services/task_manager.py, one     *)
(* object shared by every request handler and background job of the        *)
(* process.  Its methods are coroutines of one event loop; none of them    *)
(* awaits anything but the lock, so each runs from start to end without    *)
(* another coroutine in between.  Task ids are fresh: the n-th task made   *)
(* gets the id n.  The timestamps and the metadata of an entry are left    *)
(* out.                                                                    *)
(***************************************************************************)
MaxTasks == 2

TaskIds == 1..MaxTasks

\* the task types the endpoints create
TaskTypes == {"clip_upload", "clip_url", "clip_file"}

\* the entry create_task writes
NewTaskEntry(task_id, task_type) ==
    [id |-> task_id, type |-> task_type, status |-> "pending",
     result |-> Nothing, error |-> Nothing]

\* the updates the background job makes: processing, completed with a
\* result, failed with an error
TaskUpdates ==
    { [status |-> "processing", result |-> Nothing, error |-> Nothing],
      [status |-> "completed", result |-> Some("result"), error |-> Nothing],
      [status |-> "failed", result |-> Nothing, error |-> Some("error")] }

\* an update that leaves the status as it was
UpdatedEntryKeepingStatus(entry, upd) ==
    [entry EXCEPT !.result = upd.result, !.error = upd.error]

\* dict.update of an entry
UpdatedEntry(entry, upd) ==
    [entry EXCEPT !.status = upd.status, !.result = upd.result, !.error = upd.error]

\* the entries of the registry whose id is in ids, as a dict
TasksOf(ids) == [k \in ids |-> registry[k]]

\* create_task: the entry is written inside "async with self._lock"
CreateTask(task_type) ==
    /\ Len(registry) < MaxTasks
    /\ lock = FALSE
    /\ LET task_id == Len(registry) + 1
       IN /\ registry' = Append(registry, NewTaskEntry(task_id, task_type))
          /\ last_access' = [op |-> "create_task", task_id |-> task_id, locked |-> TRUE]
          /\ returned' = [kind |-> "task_id", value |-> <<>>]
    /\ lock' = FALSE
    /\ UNCHANGED <<tvars, zvars, svars, jvars, nvars, evars, uvars, xvars>>

\* update_task: the membership test and the update are inside
\* "async with self._lock"; an unknown id raises KeyError
update_task(task_id, upd) ==
    /\ lock = FALSE
    /\ IF task_id \in DOMAIN registry
       THEN /\ registry' = [registry EXCEPT ![task_id] = UpdatedEntry(@, upd)]
            /\ returned' = [kind |-> "None", value |-> <<>>]
       ELSE /\ registry' = registry
            /\ returned' = [kind |-> "KeyError", value |-> <<>>]
    /\ last_access' = [op |-> "update_task", task_id |-> task_id, locked |-> TRUE]
    /\ lock' = FALSE

\* a call of update_task by any caller
UpdateTask(task_id, upd) ==
    /\ update_task(task_id, upd)
    /\ UNCHANGED <<tvars, zvars, svars, jvars, nvars, evars, uvars, xvars>>

\* get_task: self._tasks.get(task_id), with no use of the lock
GetTask(task_id) ==
    /\ returned' = IF task_id \in DOMAIN registry
                   THEN [kind |-> "entry", value |-> TasksOf({task_id})]
                   ELSE [kind |-> "None", value |-> <<>>]
    /\ last_access' = [op |-> "get_task", task_id |-> task_id, locked |-> FALSE]
    /\ UNCHANGED <<registry, lock>>
    /\ UNCHANGED <<tvars, zvars, svars, jvars, nvars, evars, uvars, xvars>>

\* list_tasks: the entries of one type, or self._tasks itself, with no use
\* of the lock.  filter is a set: empty for no filter.
ListTasks(filter) ==
    /\ returned' = IF filter # Nothing
                   THEN [kind |-> "tasks",
                         value |-> TasksOf({ k \in DOMAIN registry :
                                             registry[k].type \in filter })]
                   ELSE [kind |-> "tasks", value |-> registry]
    /\ last_access' = [op |-> "list_tasks", task_id |-> 0, locked |-> FALSE]
    /\ UNCHANGED <<registry, lock>>
    /\ UNCHANGED <<tvars, zvars, svars, jvars, nvars, evars, uvars, xvars>>

RegistryInit ==
    /\ RegistryIdle
    /\ TranscribeIdle /\ CaptionIdle /\ DefaultSettings /\ JobIdle /\ NamesIdle
    /\ RenderIdle /\ UploadIdle /\ RestIdle

RegistryNext ==
    \/ \E task_type \in TaskTypes : CreateTask(task_type)
    \/ \E task_id \in TaskIds, upd \in TaskUpdates : UpdateTask(task_id, upd)
    \/ \E task_id \in TaskIds : GetTask(task_id)
    \/ \E filter \in {Nothing} \cup { Some(ty) : ty \in TaskTypes } : ListTasks(filter)

RegistrySpec == RegistryInit /\ [][RegistryNext]_vars

(***************************************************************************)
(* One render: VideoProcessingService.create_video_clip of                 *)
(* app/services/video_processing.py, with get_video_info and               *)
(* calculate_crop_filter.  The method is synchronous; its steps are cut at *)
(* the two external programs it runs, ffprobe and ffmpeg.                  *)
(*                                                                         *)
(* Ratios.  The code compares width / height with the target ratio in      *)
(* floating point.  The model holds a ratio as a pair of integers and      *)
(* compares by cross-multiplication; int(height * ratio) and               *)
(* int(width / ratio) are the floors of the exact quotients.               *)
(***************************************************************************)
\* the sources of the model: width and height of the video stream
VideoDims ==
    { <<1920, 1080>>, <<1080, 1920>>, <<1080, 1080>>,
      <<1920, 1082>>, <<1921, 1081>>, <<1079, 1081>>, <<16, 1>> }

\* what ffprobe may do: print the streams of the file, with or without a
\* video stream; exit nonzero (a file it cannot read); or fail otherwise
\* (the tool is missing, its output is not JSON)
ProbeAnswers ==
    { [kind |-> "streams", has_video |-> TRUE, width |-> d[1], height |-> d[2],
       has_audio |-> a] : d \in VideoDims, a \in BOOLEAN }
    \cup { [kind |-> "streams", has_video |-> FALSE, width |-> 0, height |-> 0,
            has_audio |-> a] : a \in BOOLEAN }
    \cup { [kind |-> k, has_video |-> FALSE, width |-> 0, height |-> 0,
            has_audio |-> FALSE] : k \in {"CalledProcessError", "Exception"} }

RaisedVideoInfo(type) ==
    [kind |-> "raised", type |-> type, width |-> 0, height |-> 0, has_audio |-> FALSE]

\* a probe that takes the default size when there is no video stream
get_video_info_with_defaults(answer) ==
    IF answer.kind # "streams" THEN RaisedVideoInfo("VideoProcessingError")
    ELSE IF ~answer.has_video
    THEN [kind |-> "info", type |-> "none", width |-> 1920, height |-> 1080,
          has_audio |-> answer.has_audio]
    ELSE [kind |-> "info", type |-> "none", width |-> answer.width,
          height |-> answer.height, has_audio |-> answer.has_audio]

\* get_video_info: the metadata of the first video stream; every failure is
\* raised as VideoProcessingError.  aspect_ratio is width / height, held by
\* the pair of width and height.
get_video_info(answer) ==
    IF answer.kind # "streams" THEN RaisedVideoInfo("VideoProcessingError")
    ELSE IF ~answer.has_video THEN RaisedVideoInfo("VideoProcessingError")
    ELSE [kind |-> "info", type |-> "none", width |-> answer.width,
          height |-> answer.height, has_audio |-> answer.has_audio]

\* the labels calculate_crop_filter knows besides "original"
TargetLabels == {"9:16", "16:9", "1:1"}

\* target_ratio as numerator and denominator
TargetRatio(label) ==
    IF label = "9:16" THEN <<9, 16>>
    ELSE IF label = "16:9" THEN <<16, 9>>
    ELSE <<1, 1>>

\* target_width, target_height
TargetCanvas(label) ==
    IF label = "9:16" THEN <<1080, 1920>>
    ELSE IF label = "16:9" THEN <<1920, 1080>>
    ELSE <<1080, 1080>>

Abs(x) == IF x < 0 THEN -x ELSE x

\* abs(current_ratio - target_ratio) < 0.01
WithinTolerance(width, height, ratio) ==
    100 * Abs(width * ratio[2] - ratio[1] * height) < height * ratio[2]

\* current_ratio > target_ratio
IsWider(width, height, ratio) == width * ratio[2] > ratio[1] * height

NoCrop == [w |-> 0, h |-> 0, x |-> 0, y |-> 0]

Filter(crop, scale) == [kind |-> "filter", crop |-> crop, scale |-> scale]

UnsupportedFilter ==
    [kind |-> "VideoProcessingError", crop |-> NoCrop, scale |-> <<0, 0>>]

\* a crop anchored at the origin instead of centred
calculate_crop_filter_uncentred(info, target_aspect_ratio) ==
    IF target_aspect_ratio = "original"
    THEN Filter(NoCrop, <<(info.width \div 2) * 2, (info.height \div 2) * 2>>)
    ELSE IF target_aspect_ratio \notin TargetLabels THEN UnsupportedFilter
    ELSE LET ratio == TargetRatio(target_aspect_ratio)
             canvas == TargetCanvas(target_aspect_ratio)
             width == info.width
             height == info.height
         IN  IF WithinTolerance(width, height, ratio) THEN Filter(NoCrop, canvas)
             ELSE IF IsWider(width, height, ratio)
             THEN LET new_width == (height * ratio[1]) \div ratio[2]
                  IN  Filter([w |-> new_width, h |-> height, x |-> 0, y |-> 0], canvas)
             ELSE LET new_height == (width * ratio[2]) \div ratio[1]
                  IN  Filter([w |-> width, h |-> new_height, x |-> 0, y |-> 0], canvas)

\* calculate_crop_filter: the filter as its crop (w, h, x, y; NoCrop for none)
\* and its scale; for "original" the scale is to the even size of the input
calculate_crop_filter(info, target_aspect_ratio) ==
    IF target_aspect_ratio = "original"
    THEN Filter(NoCrop, <<(info.width \div 2) * 2, (info.height \div 2) * 2>>)
    ELSE IF target_aspect_ratio \notin TargetLabels THEN UnsupportedFilter
    ELSE LET ratio == TargetRatio(target_aspect_ratio)
             canvas == TargetCanvas(target_aspect_ratio)
             width == info.width
             height == info.height
         IN  IF WithinTolerance(width, height, ratio) THEN Filter(NoCrop, canvas)
             ELSE IF IsWider(width, height, ratio)
             THEN LET new_width == (height * ratio[1]) \div ratio[2]
                      x_offset == (width - new_width) \div 2
                  IN  Filter([w |-> new_width, h |-> height, x |-> x_offset, y |-> 0],
                             canvas)
             ELSE LET new_height == (width * ratio[2]) \div ratio[1]
                      y_offset == (height - new_height) \div 2
                  IN  Filter([w |-> width, h |-> new_height, x |-> 0, y |-> y_offset],
                             canvas)

\* the aspect labels a caller may pass: the known ones and one that is not
AspectLabels == TargetLabels \cup {"original", "4:3"}

\* the renders of the model: clips of 9, 10, 120 and 121 seconds
ClipRequests ==
    { [start_time |-> s, end_time |-> s + d, aspect_ratio |-> l] :
        s \in {0, 30}, d \in {9, 10, 120, 121}, l \in AspectLabels }

RaisedClipError(type) == [kind |-> "raised", type |-> type]
ReturnedClipPath == [kind |-> "returned", type |-> "output_path"]

\* a check of the lower bound only
DurationRejectedBelow(clip_duration) == clip_duration < min_clip_duration

\* the two duration checks at the head of create_video_clip
DurationRejected(clip_duration) ==
    \/ clip_duration < min_clip_duration
    \/ clip_duration > max_clip_duration

RenderStart ==
    /\ v_pc = "validate"
    /\ clip_request \in ClipRequests
    /\ probe = NoProbe
    /\ video_info = NoVideoInfo
    /\ ffmpeg_cmd = Nothing
    /\ returncode = Nothing
    /\ output_exists = FALSE
    /\ clip_result = NoClipResult

RaiseFromRender ==
    /\ v_pc' = "raised"
    /\ clip_result' = RaisedClipError("VideoProcessingError")

\* the duration validation
ValidateDuration ==
    /\ v_pc = "validate"
    /\ IF DurationRejected(clip_request.end_time - clip_request.start_time)
       THEN RaiseFromRender
       ELSE /\ v_pc' = "probe"
            /\ UNCHANGED clip_result
    /\ UNCHANGED <<clip_request, probe, video_info, ffmpeg_cmd, returncode, output_exists>>
    /\ UNCHANGED <<tvars, zvars, svars, jvars, nvars, rvars, uvars, xvars>>

\* video_info = self.get_video_info(video_path)
ProbeSource ==
    /\ v_pc = "probe"
    /\ \E answer \in ProbeAnswers :
         /\ probe' = answer
         /\ video_info' = get_video_info(answer)
         /\ IF get_video_info(answer).kind = "raised"
            THEN RaiseFromRender
            ELSE /\ v_pc' = "encode"
                 /\ UNCHANGED clip_result
    /\ UNCHANGED <<clip_request, ffmpeg_cmd, returncode, output_exists>>
    /\ UNCHANGED <<tvars, zvars, svars, jvars, nvars, rvars, uvars, xvars>>

\* the command line: -ss and -to, -vf with the filter unless the label is
\* "original", the audio codec or -an
FfmpegCommand(request, info, filter) ==
    [ss |-> request.start_time, to |-> request.end_time, vf |-> filter,
     audio |-> IF info.has_audio THEN "aac" ELSE "an"]

\* what ffmpeg may do: exit 0 with or without the output file, or exit nonzero
EncoderOutcomes ==
    { [returncode |-> 0, written |-> TRUE], [returncode |-> 0, written |-> FALSE],
      [returncode |-> 1, written |-> FALSE], [returncode |-> 1, written |-> TRUE] }

\* an end that returns the path whenever ffmpeg exited with 0
ResultOfEncodeUnchecked(o) ==
    IF o.returncode # 0 THEN RaisedClipError("VideoProcessingError")
    ELSE ReturnedClipPath

\* check=True, then os.path.exists(output_path)
ResultOfEncode(o) ==
    IF o.returncode # 0 THEN RaisedClipError("VideoProcessingError")
    ELSE IF ~o.written THEN RaisedClipError("VideoProcessingError")
    ELSE ReturnedClipPath

\* the command is built and ffmpeg is run; an unsupported label raises while
\* the command is built
EncodeClip ==
    /\ v_pc = "encode"
    /\ LET label == clip_request.aspect_ratio
           filter == IF label # "original"
                     THEN Some(calculate_crop_filter(video_info, label))
                     ELSE Nothing
       IN  IF filter = Some(UnsupportedFilter)
           THEN /\ RaiseFromRender
                /\ UNCHANGED <<ffmpeg_cmd, returncode, output_exists>>
           ELSE \E o \in EncoderOutcomes :
                  /\ ffmpeg_cmd' = Some(FfmpegCommand(clip_request, video_info, filter))
                  /\ returncode' = Some(o.returncode)
                  /\ output_exists' = o.written
                  /\ clip_result' = ResultOfEncode(o)
                  /\ v_pc' = clip_result'.kind
    /\ UNCHANGED <<clip_request, probe, video_info>>
    /\ UNCHANGED <<tvars, zvars, svars, jvars, nvars, rvars, uvars, xvars>>

RenderInit ==
    /\ RenderStart
    /\ TranscribeIdle /\ CaptionIdle /\ DefaultSettings /\ JobIdle /\ NamesIdle
    /\ RegistryIdle /\ UploadIdle /\ RestIdle

RenderNext == ValidateDuration \/ ProbeSource \/ EncodeClip

RenderSpec == RenderInit /\ [][RenderNext]_vars

(***************************************************************************)
(* One upload to the caption backend: ZapCapService.upload_video of        *)
(* app/services/zapcap.py with _simple_upload and _multipart_upload.  The  *)
(* coroutine is cut at its requests; the backend's answers are inputs.     *)
(* The API key is set and the file exists and does not change during the   *)
(* upload.                                                                 *)
(***************************************************************************)
MaxParts == 3

\* ten_mb, and chunk_size of _multipart_upload
ten_mb == 10 * 1024 * 1024

\* the files of the model: empty, one byte, and around every multiple of
\* 10 MB up to MaxParts parts
UploadSizes == { k * ten_mb + d : k \in 0..(MaxParts - 1), d \in {0, 1} }

\* num_parts = (file_size + chunk_size - 1) // chunk_size
NumParts(size) == (size + ten_mb - 1) \div ten_mb

RaisedZapCapError == [kind |-> "raised", text |-> "ZapCapError"]
ReturnedVideoId == [kind |-> "returned", text |-> "video_id"]

\* the function ended without a return statement
ReturnedNone == [kind |-> "returned", text |-> "None"]

\* a request and the status of its answer
Request(op, part, manifest, status) ==
    [op |-> op, part |-> part, manifest |-> manifest, status |-> status]

\* what the header of a part's answer may hold: an ETag or none
ETags == {"etag", ""}

UploadStart ==
    /\ u_pc = "start"
    /\ upload_size \in UploadSizes
    /\ presigned_urls = 0
    /\ requests = <<>>
    /\ uploaded_parts = <<>>
    /\ upload_result = NoUploadResult

RaiseFromUpload ==
    /\ u_pc' = "raised"
    /\ upload_result' = RaisedZapCapError

ReturnFromUpload ==
    /\ u_pc' = "returned"
    /\ upload_result' = ReturnedVideoId

\* file_size <= ten_mb
IsSmallUpload(size) == size <= ten_mb

\* upload_video with a file of at most 10 MB: _simple_upload, one POST
SimpleUpload ==
    /\ u_pc = "start"
    /\ IsSmallUpload(upload_size)
    /\ \/ /\ requests' = Append(requests, Request("simple", 0, <<>>, 200))
          /\ ReturnFromUpload
       \/ /\ requests' = Append(requests, Request("simple", 0, <<>>, 500))
          /\ RaiseFromUpload
    /\ UNCHANGED <<upload_size, presigned_urls, uploaded_parts>>
    /\ UNCHANGED <<tvars, zvars, svars, jvars, nvars, rvars, evars, xvars>>

\* upload_video with a larger file: _multipart_upload up to the session.
\* The backend answers with any number of presigned URLs, or with an error.
CreateSession ==
    /\ u_pc = "start"
    /\ ~IsSmallUpload(upload_size)
    /\ \/ /\ requests' = Append(requests, Request("create", 0, <<>>, 500))
          /\ RaiseFromUpload
          /\ UNCHANGED presigned_urls
       \/ \E n \in 0..(NumParts(upload_size) + 1) :
            /\ requests' = Append(requests, Request("create", 0, <<>>, 200))
            /\ presigned_urls' = n
            /\ IF n = 0
               THEN RaiseFromUpload
               ELSE /\ u_pc' = "parts"
                    /\ UNCHANGED upload_result
    /\ UNCHANGED <<upload_size, uploaded_parts>>
    /\ UNCHANGED <<tvars, zvars, svars, jvars, nvars, rvars, evars, xvars>>

\* whether the loop goes on after part_number: enumerate(presigned_urls, 1)
\* has another URL and video_file.read(chunk_size) has data
PartsRemain(part_number) ==
    part_number < presigned_urls /\ upload_size > part_number * ten_mb

\* one turn of the part loop: the next chunk is PUT to the next URL, and the
\* part is entered into the manifest with the ETag of the answer
UploadPart ==
    /\ u_pc = "parts"
    /\ LET part_number == Len(uploaded_parts) + 1
       IN  \/ /\ requests' = Append(requests, Request("put", part_number, <<>>, 500))
              /\ RaiseFromUpload
              /\ UNCHANGED uploaded_parts
           \/ \E etag \in ETags :
                   /\ requests' = Append(requests, Request("put", part_number, <<>>, 200))
                   /\ uploaded_parts' = Append(uploaded_parts,
                          [partNumber |-> part_number, etag |-> etag])
                   /\ u_pc' = IF PartsRemain(part_number) THEN "parts" ELSE "finalize"
                   /\ UNCHANGED upload_result
    /\ UNCHANGED <<upload_size, presigned_urls>>
    /\ UNCHANGED <<tvars, zvars, svars, jvars, nvars, rvars, evars, xvars>>

\* the statuses the backend may give to finalize and to the lookup of the video
FinalizeStatuses == {200, 201, 202, 500}
CheckStatuses == {200, 404}

\* Response.raise_for_status raises unless the status is 2xx
RaisesForStatus(status) == ~(200 <= status /\ status < 300)

\* the end of _multipart_upload: 200 or 201 returns the id; otherwise the
\* video is looked up and 200 returns the id; otherwise
\* complete_resp.raise_for_status() is the last statement, and when it does
\* not raise the function ends without a return value
ResultOfFinalize(finalize_status, check_status) ==
    IF finalize_status \in {200, 201} THEN ReturnedVideoId
    ELSE IF check_status = 200 THEN ReturnedVideoId
    ELSE IF RaisesForStatus(finalize_status) THEN RaisedZapCapError
    ELSE ReturnedNone

\* the finalize request with the manifest; when it is not answered with 200
\* or 201 the video is looked up
FinalizeUpload ==
    /\ u_pc = "finalize"
    /\ \E fs \in FinalizeStatuses, cs \in CheckStatuses :
         /\ requests' =
                IF fs \in {200, 201}
                THEN Append(requests, Request("finalize", 0, uploaded_parts, fs))
                ELSE requests \o << Request("finalize", 0, uploaded_parts, fs),
                                    Request("check", 0, <<>>, cs) >>
         /\ upload_result' = ResultOfFinalize(fs, cs)
         /\ u_pc' = upload_result'.kind
    /\ UNCHANGED <<upload_size, presigned_urls, uploaded_parts>>
    /\ UNCHANGED <<tvars, zvars, svars, jvars, nvars, rvars, evars, xvars>>

UploadInit ==
    /\ UploadStart
    /\ TranscribeIdle /\ CaptionIdle /\ DefaultSettings /\ JobIdle /\ NamesIdle
    /\ RegistryIdle /\ RenderIdle /\ RestIdle

UploadNext == SimpleUpload \/ CreateSession \/ UploadPart \/ FinalizeUpload

UploadSpec == UploadInit /\ [][UploadNext]_vars

(***************************************************************************)
(* The clip loop and the caption fan-out of a job whose selector returned  *)
(* many candidates: process_video from step 5 up to the return or to the   *)
(* point where one caption task per clip is launched.                      *)
(* analyze_clip_segments returns the list the selector wrote, whatever its *)
(* length, and process_video has no max_clips parameter.                   *)
(***************************************************************************)
MaxCandidates == 11

\* n candidates of 45 seconds each
ManyCandidates(n) ==
    [k \in 1..n |-> [start_time |-> <<0, 0>>, end_time |-> <<0, 45>>, title |-> "t"]]

\* a job on a local file, after the selector answered
FanOutStart ==
    /\ j_pc = "clips"
    /\ video_input \in [kind : {"path"}, use_zapcap : BOOLEAN]
    /\ temp_files = {}
    /\ disk = {}
    /\ clip_segments \in { ManyCandidates(n) : n \in 1..MaxCandidates }
    /\ seg_i = 0
    /\ render_calls = {}
    /\ job_clips = <<>>
    /\ outcome = NoOutcome

FanOutInit ==
    /\ FanOutStart
    /\ TranscribeIdle /\ CaptionIdle /\ DefaultSettings /\ NamesIdle /\ OthersIdle

FanOutNext == ClipLoopStep \/ AfterClipLoop

FanOutSpec == FanOutInit /\ [][FanOutNext]_vars

(***************************************************************************)
(* VideoProcessingService.time_to_seconds on strings.  A string is a       *)
(* sequence of characters.  int() and float() are modelled on strings of   *)
(* decimal digits; signs, decimal points, exponents, blanks and the words  *)
(* float() reads ("inf", "nan") are not among the characters of the model. *)
(***************************************************************************)
MaxLen == 4

Digits == <<"0", "1", "2", "3", "4", "5", "6", "7", "8", "9">>
DigitChars == { Digits[k] : k \in DOMAIN Digits }
DigitValue(c) == (CHOOSE k \in DOMAIN Digits : Digits[k] = c) - 1

\* int(s) and float(s) succeed: s is a non-empty string of digits
IsNumber(chars) ==
    /\ chars # <<>>
    /\ \A k \in DOMAIN chars : chars[k] \in DigitChars

\* the value of a string of digits
RECURSIVE NumberOf(_)
NumberOf(chars) ==
    IF chars = <<>> THEN 0
    ELSE 10 * NumberOf(SubSeq(chars, 1, Len(chars) - 1)) + DigitValue(chars[Len(chars)])

\* time_str.split(':')
RECURSIVE SplitAtColons(_)
SplitAtColons(chars) ==
    IF \A k \in DOMAIN chars : chars[k] # ":" THEN << chars >>
    ELSE LET k == CHOOSE i \in DOMAIN chars :
                      chars[i] = ":" /\ \A h \in 1..(i - 1) : chars[h] # ":"
         IN  << SubSeq(chars, 1, k - 1) >> \o SplitAtColons(SubSeq(chars, k + 1, Len(chars)))

\* time_to_seconds of a string: the parts are read as numbers, and any
\* exception of the reading gives 0.0
time_to_seconds_of_string(chars) ==
    LET parts == SplitAtColons(chars)
    IN  IF \A k \in DOMAIN parts : IsNumber(parts[k])
        THEN time_to_seconds([k \in DOMAIN parts |-> NumberOf(parts[k])])
        ELSE 0

\* the strings of the model: every string of up to MaxLen of these characters,
\* and the labels "01:30", "1:02:30", "120" and "invalid"
TimeChars == {"0", "1", "3", ":", "x"}
TimeStrings ==
    UNION { [1..n -> TimeChars] : n \in 0..MaxLen }
    \cup { <<"0", "1", ":", "3", "0">>, <<"1", ":", "0", "2", ":", "3", "0">>,
           <<"1", "2", "0">>, <<"i", "n", "v", "a", "l", "i", "d">> }

ParseStart ==
    /\ p_pc = "called"
    /\ time_str \in TimeStrings
    /\ seconds = 0

\* the call returns
TimeToSeconds ==
    /\ p_pc = "called"
    /\ seconds' = time_to_seconds_of_string(time_str)
    /\ p_pc' = "returned"
    /\ UNCHANGED time_str
    /\ UNCHANGED <<tvars, zvars, svars, jvars, nvars, rvars, evars, uvars, avars, lvars>>

ParseInit ==
    /\ ParseStart
    /\ TranscribeIdle /\ CaptionIdle /\ DefaultSettings /\ JobIdle /\ NamesIdle
    /\ RegistryIdle /\ RenderIdle /\ UploadIdle /\ ApiIdle /\ LoopIdle

ParseNext == TimeToSeconds

ParseSpec == ParseInit /\ [][ParseNext]_vars

(***************************************************************************)
(* The clips endpoints and their background job: create_clips_from_upload, *)
(* create_clips_from_url, create_clips_from_file_path and                  *)
(* process_clip_task of app/api/v1/endpoints/clips.py, over the task       *)
(* registry above.  A handler runs as one step; the job is cut at its call *)
(* of the pipeline.  api_log holds one entry per answered request,         *)
(* scheduled the position of the job of every task that has one, and       *)
(* saved_uploads the tasks whose uploaded file is in the temp directory.   *)
(***************************************************************************)
MaxRequests == 3

\* AspectRatio of app/models/enums.py
AspectRatioValues == {"9:16", "16:9", "1:1", "original"}

\* settings.supported_video_formats
SupportedVideoFormats == {".mp4", ".mov", ".avi", ".mkv", ".webm"}

\* the uploads of the model: name and extension of the file, its content
\* type ("" for none), the aspect_ratio field, and whether the content is
\* longer than settings.max_file_size
UploadRequests ==
    [filename : {"video", ""}, extension : {".mp4", ".txt"},
     content_type : {"video/mp4", "text/plain", ""},
     aspect_ratio : {"9:16", "4:3"}, too_large : BOOLEAN]

\* file.content_type.startswith('video/')
IsVideoType(content_type) == content_type = "video/mp4"

\* save_upload_file raises StorageError
SaveFails(req) == req.extension \notin SupportedVideoFormats \/ req.too_large

\* the first exception of the upload handler's try block, "none" if it
\* runs to its return
UploadException(req) ==
    IF req.filename = "" THEN "HTTPException(400)"
    ELSE IF req.content_type # "" /\ ~IsVideoType(req.content_type) THEN "HTTPException(400)"
    ELSE IF req.aspect_ratio \notin AspectRatioValues THEN "HTTPException(400)"
    ELSE IF SaveFails(req) THEN "StorageError"
    ELSE "none"

\* "except Exception as e: raise HTTPException(status_code=500, ...)": the
\* status of the answer for what the try block raised
StatusAfter(exception) == IF exception = "none" THEN 200 ELSE 500

\* the methods of AutoClipperService
ServiceMethods ==
    {"analyze_clip_segments", "get_video_from_url",
     "process_clips_with_zapcap_parallel", "process_video"}

\* the parameters of AutoClipperService.process_video
ProcessVideoParameters == {"video_input", "use_zapcap", "zapcap_template_id", "aspect_ratio"}

\* the keyword arguments process_clip_task passes on for an upload:
\* **kwargs and request
UploadKwargs ==
    {"video_input", "use_zapcap", "zapcap_template_id", "aspect_ratio", "request"}

\* what "await process_func(**kwargs, request=request)" may do: a keyword
\* that is no parameter raises TypeError before the pipeline starts
PipelineOutcomes(kwargs) ==
    IF kwargs \subseteq ProcessVideoParameters
    THEN { [status |-> "completed", result |-> Some("result"), error |-> Nothing],
           [status |-> "failed", result |-> Nothing, error |-> Some("error")] }
    ELSE { [status |-> "failed", result |-> Nothing, error |-> Some("TypeError")] }

\* temp_files of process_video: only a file it saved or downloaded itself
TempFilesOf(video_input_kind, task_id) ==
    IF video_input_kind \in {"upload_file", "url"} THEN {task_id} ELSE {}

LogEntry(endpoint, req, status, task_id) ==
    [endpoint |-> endpoint, content_type |-> req.content_type,
     aspect_ratio |-> req.aspect_ratio, status |-> status, task_id |-> task_id]

NoUpload ==
    [filename |-> "", extension |-> "", content_type |-> "",
     aspect_ratio |-> "9:16", too_large |-> FALSE]

ApiFrame == UNCHANGED <<tvars, zvars, svars, jvars, nvars, evars, uvars, pvars, lvars>>

\* POST /upload
CreateClipsFromUpload(req) ==
    /\ Len(api_log) < MaxRequests
    /\ Len(registry) < MaxTasks
    /\ lock = FALSE
    /\ LET exception == UploadException(req)
           task_id == Len(registry) + 1
       IN IF exception # "none"
          THEN /\ api_log' = Append(api_log, LogEntry("upload", req, StatusAfter(exception), 0))
               /\ UNCHANGED <<rvars, scheduled, saved_uploads>>
          ELSE /\ saved_uploads' = saved_uploads \cup {task_id}
               /\ registry' = Append(registry, NewTaskEntry(task_id, "clip_upload"))
               /\ scheduled' = [id \in DOMAIN scheduled \cup {task_id} |->
                                  IF id = task_id THEN "queued" ELSE scheduled[id]]
               /\ last_access' = [op |-> "get_task", task_id |-> task_id, locked |-> FALSE]
               /\ returned' = [kind |-> "entry",
                               value |-> [k \in {task_id} |-> registry'[k]]]
               /\ lock' = FALSE
               /\ api_log' = Append(api_log, LogEntry("upload", req, StatusAfter(exception), task_id))
    /\ ApiFrame

\* POST /url and POST /file: the task is created, and the attribute
\* service.create_clips_from_url or service.create_clips_from_file_path is
\* read for add_task
CreateClipsFrom(endpoint, task_type, method) ==
    /\ Len(api_log) < MaxRequests
    /\ Len(registry) < MaxTasks
    /\ lock = FALSE
    /\ LET task_id == Len(registry) + 1
           exception == IF method \in ServiceMethods THEN "none" ELSE "AttributeError"
       IN /\ registry' = Append(registry, NewTaskEntry(task_id, task_type))
          /\ lock' = FALSE
          /\ IF exception = "none"
             THEN /\ scheduled' = [id \in DOMAIN scheduled \cup {task_id} |->
                                     IF id = task_id THEN "queued" ELSE scheduled[id]]
                  /\ last_access' = [op |-> "get_task", task_id |-> task_id, locked |-> FALSE]
                  /\ returned' = [kind |-> "entry",
                                  value |-> [k \in {task_id} |-> registry'[k]]]
             ELSE /\ scheduled' = scheduled
                  /\ last_access' = [op |-> "create_task", task_id |-> task_id, locked |-> TRUE]
                  /\ returned' = [kind |-> "task_id", value |-> <<>>]
          /\ api_log' = Append(api_log, LogEntry(endpoint, NoUpload, StatusAfter(exception), task_id))
    /\ UNCHANGED saved_uploads
    /\ ApiFrame

CreateClipsFromUrl == CreateClipsFrom("url", "clip_url", "create_clips_from_url")

CreateClipsFromFilePath == CreateClipsFrom("file", "clip_file", "create_clips_from_file_path")

\* process_clip_task, first step: the task is set to processing
StartClipTask(task_id) ==
    /\ task_id \in DOMAIN scheduled
    /\ scheduled[task_id] = "queued"
    /\ update_task(task_id, [status |-> "processing", result |-> Nothing, error |-> Nothing])
    /\ scheduled' = [scheduled EXCEPT ![task_id] = "calling"]
    /\ UNCHANGED <<api_log, saved_uploads>>
    /\ ApiFrame

\* process_clip_task, second step: the call of the pipeline ends, its
\* temp_files are removed, and the task is set to completed or failed.  The
\* jobs that exist are those of uploads; their video_input is the path of
\* the saved file.
FinishClipTask(task_id) ==
    /\ task_id \in DOMAIN scheduled
    /\ scheduled[task_id] = "calling"
    /\ \E upd \in PipelineOutcomes(UploadKwargs) :
         update_task(task_id, upd)
    /\ saved_uploads' = saved_uploads \ TempFilesOf("path", task_id)
    /\ scheduled' = [scheduled EXCEPT ![task_id] = "done"]
    /\ UNCHANGED api_log
    /\ ApiFrame

\* update_task called with an id the registry does not hold
UpdateUnknownTask(task_id, upd) ==
    /\ task_id \notin DOMAIN registry
    /\ UpdateTask(task_id, upd)

ApiInit ==
    /\ RegistryIdle /\ ApiIdle
    /\ TranscribeIdle /\ CaptionIdle /\ DefaultSettings /\ JobIdle /\ NamesIdle
    /\ RenderIdle /\ UploadIdle /\ ParseIdle /\ LoopIdle

ApiNext ==
    \/ \E req \in UploadRequests : CreateClipsFromUpload(req)
    \/ CreateClipsFromUrl
    \/ CreateClipsFromFilePath
    \/ \E task_id \in TaskIds : StartClipTask(task_id)
    \/ \E task_id \in TaskIds : FinishClipTask(task_id)
    \/ \E task_id \in TaskIds, upd \in TaskUpdates : UpdateUnknownTask(task_id, upd)
    \/ \E task_id \in TaskIds : GetTask(task_id)

ApiSpec == ApiInit /\ [][ApiNext]_vars

(***************************************************************************)
(* The event loop.  Background jobs and request handlers are coroutines of *)
(* one event loop, run by one thread: a coroutine that has the thread      *)
(* keeps it until it awaits something that is not ready.  A job is         *)
(* AutoClipperService.process_video up to its clip loop, cut at the        *)
(* external programs it runs.  get_video_info, extract_audio_from_video,   *)
(* split_audio_for_transcription and create_video_clip call subprocess.run *)
(* on the loop's thread; only transcribe_chunks_parallel hands its work to *)
(* an executor and awaits it.  loop_thread is the job that has the thread, *)
(* 0 for none.                                                             *)
(***************************************************************************)
MaxLoopJobs == 3

MaxReads == 2

LoopJobs == 1..MaxLoopJobs

\* the positions in which a job is inside subprocess.run of ffprobe or ffmpeg
Invocations == {"get_video_info", "extract_audio", "split_audio", "create_video_clip"}

LoopFrame ==
    UNCHANGED <<tvars, zvars, svars, jvars, nvars, rvars, evars, uvars, pvars, avars>>

\* the loop starts a job: it runs without a break into ffprobe
StartJob(self) ==
    /\ loop_thread = 0
    /\ l_pc[self] = "queued"
    /\ l_pc' = [l_pc EXCEPT ![self] = "get_video_info"]
    /\ loop_thread' = self
    /\ UNCHANGED reads
    /\ LoopFrame

\* subprocess.run returns and the job goes on, on the same thread, to the
\* next program: the audio extraction, then the chunk split
NextInvocation(self) ==
    /\ loop_thread = self
    /\ l_pc[self] \in {"get_video_info", "extract_audio"}
    /\ l_pc' = [l_pc EXCEPT ![self] =
                  IF l_pc[self] = "get_video_info" THEN "extract_audio" ELSE "split_audio"]
    /\ UNCHANGED <<loop_thread, reads>>
    /\ LoopFrame

\* after the split: one chunk is transcribed by a call on the loop's
\* thread; several chunks are handed to the executor and awaited, which
\* gives the thread back to the loop
Transcribe(self) ==
    /\ loop_thread = self
    /\ l_pc[self] = "split_audio"
    /\ \/ /\ l_pc' = [l_pc EXCEPT ![self] = "transcribe_single"]
          /\ UNCHANGED loop_thread
       \/ /\ l_pc' = [l_pc EXCEPT ![self] = "await_chunks"]
          /\ loop_thread' = 0
    /\ UNCHANGED reads
    /\ LoopFrame

\* the transcript is there: the job goes on, on the loop's thread, through
\* analyze_clip_segments into the ffmpeg of its first clip
RenderClip(self) ==
    /\ \/ l_pc[self] = "transcribe_single" /\ loop_thread = self
       \/ l_pc[self] = "await_chunks" /\ loop_thread = 0
    /\ l_pc' = [l_pc EXCEPT ![self] = "create_video_clip"]
    /\ loop_thread' = self
    /\ UNCHANGED reads
    /\ LoopFrame

\* the last render returns and the job ends
EndJob(self) ==
    /\ loop_thread = self
    /\ l_pc[self] = "create_video_clip"
    /\ l_pc' = [l_pc EXCEPT ![self] = "done"]
    /\ loop_thread' = 0
    /\ UNCHANGED reads
    /\ LoopFrame

\* GET /tasks/{task_id}: a handler of the same loop
TaskStatusRead ==
    /\ loop_thread = 0
    /\ reads < MaxReads
    /\ reads' = reads + 1
    /\ UNCHANGED <<loop_thread, l_pc>>
    /\ LoopFrame

LoopInit ==
    /\ loop_thread = 0
    /\ l_pc = [self \in LoopJobs |-> "queued"]
    /\ reads = 0
    /\ TranscribeIdle /\ CaptionIdle /\ DefaultSettings /\ JobIdle /\ NamesIdle
    /\ RegistryIdle /\ RenderIdle /\ UploadIdle /\ ParseIdle /\ ApiIdle

LoopNext ==
    \/ \E self \in LoopJobs : StartJob(self)
    \/ \E self \in LoopJobs : NextInvocation(self)
    \/ \E self \in LoopJobs : Transcribe(self)
    \/ \E self \in LoopJobs : RenderClip(self)
    \/ \E self \in LoopJobs : EndJob(self)
    \/ TaskStatusRead

LoopSpec == LoopInit /\ [][LoopNext]_vars

(***************************************************************************)
(* Properties of the transcription job.                                    *)
(***************************************************************************)
MultiChunk == NChunks >= 2
Merged == t_pc = "returned" /\ transcript.kind = "merged"

\* the chunks the backend transcribed: it answered with a verbose_json body
Succeeded == { i \in ChunkIndexes : backend[i].kind = "verbose_json" }

\* the positions of a merged list that hold an item of chunk i
SegmentsOf(i) == { p \in DOMAIN transcript.segments : transcript.segments[p].text[1] = i }
WordsOf(i) == { p \in DOMAIN transcript.words : transcript.words[p].word[1] = i }
TextsOf(i) == { p \in DOMAIN transcript.text : transcript.text[p] = <<"chunk", i>> }

\* C1: in a multi-chunk transcription every chunk is transcribed whatever
\* happens to its siblings; when at least one chunk succeeds the job returns a
\* transcript that holds every segment, word and text of the successful chunks
\* exactly once and nothing of the failed ones; it raises only when all fail.
C1_PartialSuccess ==
    (MultiChunk /\ t_pc \in {"returned", "raised"}) =>
        /\ \A i \in ChunkIndexes : backend[i] # NotCalled
        /\ (Succeeded # {}) => Merged
        /\ (t_pc = "raised") => (Succeeded = {})
        /\ Merged =>
             \A i \in ChunkIndexes :
                IF i \in Succeeded
                THEN /\ Cardinality(SegmentsOf(i)) = Len(backend[i].segments)
                     /\ Cardinality(WordsOf(i)) = Len(backend[i].words)
                     /\ \A k \in DOMAIN backend[i].segments :
                          Cardinality({ p \in SegmentsOf(i) :
                              transcript.segments[p].text = <<i, k>> }) = 1
                     /\ \A k \in DOMAIN backend[i].words :
                          Cardinality({ p \in WordsOf(i) :
                              transcript.words[p].word = <<i, k>> }) = 1
                     /\ Cardinality(TextsOf(i)) = Len(backend[i].text)
                ELSE SegmentsOf(i) = {} /\ WordsOf(i) = {} /\ TextsOf(i) = {}

\* three chunks, the middle one raised, the other two are in the transcript
C1_Witness ==
    /\ Merged /\ NChunks = 3
    /\ backend[1].kind = "raise"
    /\ SegmentsOf(0) # {} /\ SegmentsOf(2) # {}
    /\ WordsOf(0) # {} /\ WordsOf(2) # {}

\* C2: whatever the order in which the chunk transcriptions completed, the
\* merged segments, words and texts are in ascending chunk index, and in the
\* backend's order within a chunk.
C2_AscendingChunkOrder ==
    Merged =>
        /\ \A p, q \in DOMAIN transcript.segments :
             p < q =>
                LET a == transcript.segments[p].text
                    b == transcript.segments[q].text
                IN  a[1] < b[1] \/ (a[1] = b[1] /\ a[2] < b[2])
        /\ \A p, q \in DOMAIN transcript.words :
             p < q =>
                LET a == transcript.words[p].word
                    b == transcript.words[q].word
                IN  a[1] < b[1] \/ (a[1] = b[1] /\ a[2] < b[2])
        /\ \A p, q \in DOMAIN transcript.text :
             (p < q /\ transcript.text[p] # Space /\ transcript.text[q] # Space)
                => transcript.text[p][2] < transcript.text[q][2]

\* the chunks completed in descending order and all three were merged
C2_Witness ==
    /\ Merged /\ completed = <<2, 1, 0>>
    /\ \A i \in 0..2 : Len(backend[i].segments) = 2 /\ TextsOf(i) # {}

\* n is the ceiling of x / d: the least n with n * d >= x
IsCeilDiv(n, x, d) == n * d >= x /\ (n - 1) * d < x

C4_OffsetOnce ==
    Merged =>
        /\ \A p \in DOMAIN transcript.segments :
             LET m == transcript.segments[p]
                 i == m.text[1]
                 local == backend[i].segments[m.text[2]]
             IN  /\ m.start = local.start + chunk_info[i + 1].start_offset
                 /\ m.end = local.end + chunk_info[i + 1].start_offset
        /\ \A p \in DOMAIN transcript.words :
             LET m == transcript.words[p]
                 i == m.word[1]
                 local == backend[i].words[m.word[2]]
             IN  /\ m.start = local.start + chunk_info[i + 1].start_offset
                 /\ m.end = local.end + chunk_info[i + 1].start_offset

\* segments and words of the first and of the last of three chunks, with
\* different offsets, are in the transcript
C4_Witness ==
    /\ Merged /\ NChunks = 3 /\ total_duration > 0
    /\ chunk_info[3].start_offset > chunk_info[2].start_offset
    /\ Cardinality(SegmentsOf(0)) = 2 /\ Cardinality(SegmentsOf(2)) = 2
    /\ Cardinality(WordsOf(0)) = 2 /\ Cardinality(WordsOf(2)) = 2

\* the backend's answer for chunk i has non-decreasing timestamps within
\* [0, the chunk's duration]
WellTimed(items, dur) ==
    /\ \A k \in DOMAIN items :
         0 <= items[k].start /\ items[k].start <= items[k].end /\ items[k].end <= dur
    /\ \A k \in 1..(Len(items) - 1) : items[k].start <= items[k + 1].start

BackendWellTimed ==
    \A i \in Succeeded :
        /\ WellTimed(backend[i].segments, chunk_info[i + 1].duration)
        /\ WellTimed(backend[i].words, chunk_info[i + 1].duration)

\* C5: when every chunk's backend output is well timed, the start times of the
\* merged segments and of the merged words never decrease, also when failed
\* chunks were dropped.
C5_MonotonicStarts ==
    (Merged /\ BackendWellTimed) =>
        /\ \A p \in 1..(Len(transcript.segments) - 1) :
             transcript.segments[p].start <= transcript.segments[p + 1].start
        /\ \A p \in 1..(Len(transcript.words) - 1) :
             transcript.words[p].start <= transcript.words[p + 1].start

\* the middle chunk of three failed and the outer two hold two items each
C5_Witness ==
    /\ Merged /\ NChunks = 3 /\ total_duration > 0 /\ BackendWellTimed
    /\ backend[1].kind = "bad_timestamp"
    /\ Len(transcript.segments) = 4 /\ Len(transcript.words) = 4

(***************************************************************************)
(* Properties of the caption fan-out.                                      *)
(***************************************************************************)
Reported == z_pc = "reported"

\* the storage and the backend answered every call of the coroutine without
\* an error, a failed status or a timeout
NoFault(t) == \A k \in DOMAIN t.log : t.log[k].then \in {"continue", "sleep", "return"}

IsError(entry) == DOMAIN entry = {"error"}
IsCaptionResult(entry) == DOMAIN entry = {"video_id", "task_id", "captioned_video_path"}

\* C6: whichever caption tasks raise, every other clip's entry in the returned
\* mapping is a success result: a clip none of whose own calls failed is never
\* given an error.
C6_SiblingsUnaffected ==
    (Reported /\ use_zapcap) =>
        \A c \in created_clips :
            NoFault(task[c]) => IsCaptionResult(zapcap_results[c])

C8_ResultXorError ==
    \A c \in created_clips :
        /\ ~(report[c].zapcap_result # Nothing /\ report[c].zapcap_error # Nothing)
        /\ (report[c] # NoCaption) =>
              (Reported /\ use_zapcap /\ \A d \in created_clips : Finished(task[d]))
        /\ (Reported /\ use_zapcap) =>
              Cardinality(report[c].zapcap_result) + Cardinality(report[c].zapcap_error) = 1
        /\ (Reported /\ ~use_zapcap) => report[c] = NoCaption

\* a report in which one clip carries a result and another one an error
C8_Witness ==
    /\ Reported /\ use_zapcap
    /\ \E c, d \in created_clips :
         /\ report[c].zapcap_result # Nothing /\ report[c].zapcap_error = Nothing
         /\ report[d].zapcap_error # Nothing /\ report[d].zapcap_result = Nothing

\* C9: wait_for_completion ends: a completed status makes it return, a failed
\* status makes it raise, and a poll answered after max_wait_time has elapsed
\* never leaves it waiting, whatever the status.
C9_WaitEnds ==
    \A c \in created_clips :
        LET t == task[c]
        IN  /\ \A k \in DOMAIN t.log :
                 /\ t.log[k].answer = "completed" => t.log[k].then \in {"return", "raise_no_url"}
                 /\ t.log[k].answer = "failed" => t.log[k].then = "raise_failed"
            /\ (t.pc = "waiting" /\ t.log[Len(t.log)].call = "poll") =>
                 (t.wake - check_interval) - t.start_time <= max_wait_time

Rank(call) ==
    CASE call = "save" -> 1
      [] call = "upload" -> 2
      [] call = "create" -> 3
      [] call = "poll" -> 4
      [] call = "download" -> 5

JobEnded == j_pc \in {"returned", "raised"}

\* C11: when process_video has returned or raised, no temporary artifact of
\* the job is left: the only files of the job that exist are clip files and
\* captioned result files.
C11_TempArtifactsRemoved ==
    JobEnded => \A f \in disk : f.dir \in {"clips", "results"}

\* C12: when transcribe_audio_with_timestamps has returned or raised, no audio
\* chunk file of the job exists, whatever the outcome.
C12_ChunkFilesDeleted ==
    t_pc \in {"returned", "raised"} => temp_dir = {}

TypedErrors == {"VideoProcessingError", "TranscriptionError", "ContentAnalysisError"}

C14_ClipFailureLocal ==
    (JobEnded /\ job_clips # <<>>) => j_pc = "returned"

C16_ContiguousOrdinals ==
    j_pc = "returned" => \A p \in DOMAIN job_clips : job_clips[p].clip_number = p

\* C17: whatever the order the caption tasks finish in, the mapping and the
\* report have exactly the ordinals of the rendered clips, and a caption
\* result attached to a clip is that of a video uploaded from the clip's own
\* bytes.
C17_OutcomeOfOwnClip ==
    (Reported /\ use_zapcap) =>
        /\ DOMAIN zapcap_results = created_clips
        /\ DOMAIN report = created_clips
        /\ \A c \in created_clips :
             IsCaptionResult(zapcap_results[c]) =>
                 /\ zapcap_results[c].video_id = VideoId(c)
                 /\ report[c].zapcap_result = Some(zapcap_results[c])

\* C18: two caption tasks of one job that are both running never hold the same
\* upload path, and no task removes or rewrites a file another running task
\* uploads from.
C18_OwnFilePaths ==
    \A c, d \in created_clips :
        (c # d /\ ~Finished(task[c]) /\ ~Finished(task[d])) =>
            task[c].temp_file_path \cap task[d].temp_file_path = {}

\* C19: two jobs running in the same process never hold the same path, and
\* every file a job holds exists and holds what that job wrote: no job
\* overwrites or deletes the saved upload, the extracted audio, an audio chunk
\* or a clip of another job.
C19_JobsOwnPaths ==
    /\ \A a, b \in Jobs : a # b => Held(a) \cap Held(b) = {}
    /\ \A j \in Jobs : \A p \in Held(j) : p \in DOMAIN files /\ files[p] = j

\* C20: the chunk transcriptions in flight never exceed
\* min(max_concurrent_chunks, number of chunks), and every chunk of a job that
\* transcribes in parallel is eventually dispatched.
C20_BoundedDispatch ==
    /\ [](Cardinality(InFlight) <= Min(settings.max_concurrent_chunks, NChunks))
    /\ (t_pc = "transcribing") ~> (dispatched = NChunks)

\* three chunks under a limit of two: two are in flight and the third waits
C20_Witness ==
    /\ t_pc = "transcribing" /\ NChunks = 3
    /\ settings.max_concurrent_chunks = 2
    /\ Cardinality(InFlight) = 2 /\ dispatched = 2

(***************************************************************************)
(* Properties of the task registry.                                        *)
(***************************************************************************)
\* C21: every create, update and read of a task entry is made while the
\* registry's lock is held.  The reads get_task and list_tasks are made
\* without it.
C21_AccessUnderLock == last_access.op # "none" => last_access.locked

(***************************************************************************)
(* Properties of the report of a clipping job.                             *)
(***************************************************************************)
\* the selector answered one candidate, of 45 seconds
OneCandidateOf45 ==
    /\ Len(clip_segments) = 1
    /\ ClipDuration(clip_segments[1]) = 45

\* no clip of the job went through the caption backend
NoCaptionCall ==
    /\ j_pc # "caption"
    /\ \A p \in DOMAIN job_clips : job_clips[p].caption = NoCaption
    /\ \A p \in DOMAIN job_clips : CaptionedPath(job_clips[p].clip_number, 0) \notin disk

\* C22: in every report clips_created is the number of clips,
\* total_clip_duration the sum of their durations and zapcap_processed the
\* use_zapcap argument; a job without use_zapcap makes no caption call, and
\* when the selector gave one candidate of 45 seconds its report has one clip,
\* total_clip_duration 45 and zapcap_processed false.
C22_ReportSummary ==
    /\ ~video_input.use_zapcap => NoCaptionCall
    /\ j_pc = "returned" =>
         /\ outcome.processing_summary.clips_created = Len(job_clips)
         /\ outcome.total_clips = Len(job_clips)
         /\ outcome.processing_summary.total_clip_duration = SumOfDurations(job_clips)
         /\ outcome.processing_summary.zapcap_processed = video_input.use_zapcap
         /\ (OneCandidateOf45 /\ ~video_input.use_zapcap) =>
              /\ Len(job_clips) = 1
              /\ outcome.processing_summary.total_clip_duration = 45
              /\ outcome.processing_summary.zapcap_processed = FALSE

\* a job without use_zapcap returned the report of its one 45-second clip
C22_Witness ==
    /\ j_pc = "returned"
    /\ OneCandidateOf45
    /\ ~video_input.use_zapcap
    /\ Len(job_clips) = 1
    /\ render_calls = {0}

(***************************************************************************)
(* Properties of a render.                                                 *)
(***************************************************************************)
\* ffmpeg was run with a -vf filter for one of the target labels
CroppedRender ==
    /\ ffmpeg_cmd # Nothing
    /\ clip_request.aspect_ratio \in TargetLabels

\* the filter of the command that was run
VideoFilter == (CHOOSE cmd \in ffmpeg_cmd : TRUE).vf

TheFilter == CHOOSE f \in VideoFilter : TRUE

\* q is the floor of n / d
IsFloorOf(q, n, d) == q * d <= n /\ n < (q + 1) * d

\* the crop keeps the full height, is floor(height * ratio) wide and centred
CropsSides(f, width, height, ratio) ==
    /\ f.crop.h = height /\ f.crop.y = 0
    /\ IsFloorOf(f.crop.w, height * ratio[1], ratio[2])
    /\ IsFloorOf(f.crop.x, width - f.crop.w, 2)

\* the crop keeps the full width, is floor(width / ratio) high and centred
CropsTopAndBottom(f, width, height, ratio) ==
    /\ f.crop.w = width /\ f.crop.x = 0
    /\ IsFloorOf(f.crop.h, width * ratio[2], ratio[1])
    /\ IsFloorOf(f.crop.y, height - f.crop.h, 2)

\* 1920x1080 to "9:16": crop width 607, xOffset 656, scale to 1080x1920
Example1920x1080 ==
    (/\ video_info.width = 1920 /\ video_info.height = 1080
     /\ clip_request.aspect_ratio = "9:16")
    => /\ TheFilter.crop.w = 607 /\ TheFilter.crop.x = 656
       /\ TheFilter.scale = <<1080, 1920>>

\* C23 as stated: every source wider than the target ratio is cropped at the
\* sides, every source taller than it is cropped at top and bottom, and both
\* are then scaled to the canvas of the label.
C23_CropWheneverOffTarget ==
    CroppedRender =>
        LET ratio == TargetRatio(clip_request.aspect_ratio)
            width == video_info.width
            height == video_info.height
        IN  /\ VideoFilter # Nothing
            /\ TheFilter.scale = TargetCanvas(clip_request.aspect_ratio)
            /\ width * ratio[2] > ratio[1] * height
                 => CropsSides(TheFilter, width, height, ratio)
            /\ width * ratio[2] < ratio[1] * height
                 => CropsTopAndBottom(TheFilter, width, height, ratio)
            /\ Example1920x1080

\* C23: a source whose ratio is 0.01 or more away from the target ratio is
\* cropped: at the sides to width floor(height * targetRatio) with
\* xOffset = floor((width - cropWidth) / 2) when it is wider, at top and
\* bottom to height floor(width / targetRatio) with
\* yOffset = floor((height - cropHeight) / 2) when it is taller; a source
\* closer than 0.01 to the target ratio is not cropped; all are scaled to the
\* canvas of the label.  1920x1080 to "9:16" gives crop width 607, xOffset
\* 656 and scale 1080x1920.
C23_CropOutsideTolerance ==
    CroppedRender =>
        LET ratio == TargetRatio(clip_request.aspect_ratio)
            width == video_info.width
            height == video_info.height
            near == 100 * Abs(width * ratio[2] - ratio[1] * height) < height * ratio[2]
        IN  /\ VideoFilter # Nothing
            /\ TheFilter.scale = TargetCanvas(clip_request.aspect_ratio)
            /\ near => TheFilter.crop = NoCrop
            /\ (~near /\ width * ratio[2] > ratio[1] * height)
                 => CropsSides(TheFilter, width, height, ratio)
            /\ (~near /\ width * ratio[2] < ratio[1] * height)
                 => CropsTopAndBottom(TheFilter, width, height, ratio)
            /\ Example1920x1080

\* a 1920x1080 source was rendered to "9:16" with crop width 607
C23_Witness ==
    /\ CroppedRender
    /\ video_info.width = 1920 /\ video_info.height = 1080
    /\ clip_request.aspect_ratio = "9:16"
    /\ TheFilter.crop = [w |-> 607, h |-> 1080, x |-> 656, y |-> 0]

\* C24: for the label "original" the command that create_video_clip runs has
\* the filter that scales to the even size floor(w/2)*2 by floor(h/2)*2, and
\* no crop.
C24_EvenScaleForOriginal ==
    (ffmpeg_cmd # Nothing /\ clip_request.aspect_ratio = "original") =>
        VideoFilter = Some(Filter(NoCrop, <<(video_info.width \div 2) * 2,
                                            (video_info.height \div 2) * 2>>))

\* the duration of the requested clip is outside the bounds
DurationOutOfBounds ==
    LET d == clip_request.end_time - clip_request.start_time
    IN  d < min_clip_duration \/ d > max_clip_duration

\* C25: a clip whose duration is below min_clip_duration or above
\* max_clip_duration is rejected first: create_video_clip raises
\* VideoProcessingError, the source was not probed, ffmpeg was not run and no
\* output file was made.
C25_DurationFirst ==
    (DurationOutOfBounds /\ v_pc # "validate") =>
        /\ v_pc = "raised"
        /\ clip_result = RaisedClipError("VideoProcessingError")
        /\ probe = NoProbe /\ video_info = NoVideoInfo
        /\ ffmpeg_cmd = Nothing /\ returncode = Nothing
        /\ ~output_exists

\* a clip of 121 seconds was rejected
C25_Witness ==
    /\ v_pc = "raised"
    /\ clip_request.end_time - clip_request.start_time = 121

C28_SmallFileOneChunk ==
    (file_size <= max_transcription_chunk_size /\ t_pc # "start") =>
        /\ Len(chunk_info) = 1
        /\ chunk_info[1].path = AudioPath
        /\ chunk_info[1].start_offset = 0
        /\ chunk_info[1].duration = total_duration
        /\ temp_dir = {}

\* a file of exactly the threshold size went through the split
C28_Witness ==
    /\ file_size = max_transcription_chunk_size
    /\ t_pc = "single"
    /\ Len(chunk_info) = 1
    /\ total_duration > 0

\* C29: when the split gives one chunk, the transcript returned is the
\* backend's answer for the unsplit file: the same text, segments and words,
\* with their timestamps as the backend gave them.
C29_SingleChunkUnchanged ==
    (t_pc = "returned" /\ Len(chunk_info) = 1) =>
        /\ chunk_info[1].path = AudioPath
        /\ chunk_info[1].start_offset = 0
        /\ transcript.text = backend[0].text
        /\ transcript.segments = backend[0].segments
        /\ transcript.words = backend[0].words

\* a single-file job returned a transcript with segments and words
C29_Witness ==
    /\ t_pc = "returned"
    /\ Len(chunk_info) = 1
    /\ transcript.kind = "single"
    /\ transcript.segments # <<>>
    /\ transcript.words # <<>>
    /\ total_duration > 0

(***************************************************************************)
(* Properties of an upload.                                                *)
(***************************************************************************)
\* the part numbers of a manifest, in its order
PartNumbers(manifest) == [k \in DOMAIN manifest |-> manifest[k].partNumber]

\* C30: a file of at most 10 MB is sent by the single request and a larger
\* one by the multipart protocol; there the session is created first, the
\* parts are sent one at a time in ascending number, and finalize is sent
\* only after all N = ceil(size / 10 MB) parts, with a manifest of exactly
\* the parts 1..N.
C30_FinalizeAfterAllParts ==
    \A k \in DOMAIN requests :
        /\ requests[k].op = "simple" => (upload_size <= ten_mb /\ k = 1)
        /\ requests[k].op = "create" => (upload_size > ten_mb /\ k = 1)
        /\ requests[k].op = "put" => (k > 1 /\ requests[k].part = k - 1)
        /\ requests[k].op = "finalize" =>
             /\ k = NumParts(upload_size) + 2
             /\ PartNumbers(requests[k].manifest) =
                    [p \in 1..NumParts(upload_size) |-> p]

\* the answers to the finalize request and to the lookup that followed it
FinalizeAnswered == \E k \in DOMAIN requests : requests[k].op = "finalize"

FinalizeStatus == requests[CHOOSE k \in DOMAIN requests : requests[k].op = "finalize"].status

CheckAnswered200 ==
    \E k \in DOMAIN requests : requests[k].op = "check" /\ requests[k].status = 200

\* C31: _multipart_upload returns the video id exactly when finalize was
\* answered with 200 or 201 or, after another status, the lookup of the video
\* was answered with 200; in every other case it raises ZapCapError, and it
\* never returns without a video id.
C31_IdOrZapCapError ==
    FinalizeAnswered =>
        /\ upload_result # ReturnedNone
        /\ upload_result = ReturnedVideoId <=>
              (FinalizeStatus \in {200, 201} \/ CheckAnswered200)
        /\ upload_result # ReturnedVideoId => upload_result = RaisedZapCapError

\* C32: a job renders at most 10 clips, and so launches at most 10 caption
\* tasks at once, whatever the number of candidates of the selector.
C32_AtMostTenClips ==
    /\ Cardinality(render_calls) <= 10
    /\ j_pc \in {"caption", "returned"} => Len(job_clips) <= 10

(***************************************************************************)
(* Properties of time_to_seconds.                                          *)
(***************************************************************************)
\* the parts of the argument between its colons
TimeParts == SplitAtColons(time_str)

\* the argument is made of n numbers separated by colons
IsLabelOf(n) == Len(TimeParts) = n /\ \A k \in 1..n : IsNumber(TimeParts[k])

InvalidUpload(k) ==
    /\ api_log[k].endpoint = "upload"
    /\ \/ api_log[k].content_type # "" /\ ~IsVideoType(api_log[k].content_type)
       \/ api_log[k].aspect_ratio \notin AspectRatioValues

\* C34: an upload with a non-video file type or an invalid aspect ratio is
\* answered with status 400, and no task is created for it.
C34_InvalidUploadRejectedWith400 ==
    \A k \in DOMAIN api_log :
        InvalidUpload(k) => api_log[k].status = 400 /\ api_log[k].task_id = 0

\* the status of a task moves from pending to processing, and from
\* processing to completed or failed
LifecycleStep(before, after) ==
    \/ before = "pending" /\ after = "processing"
    \/ before = "processing" /\ after \in {"completed", "failed"}

\* the last call of the registry was an update of an id it does not hold
UnknownUpdate ==
    last_access.op = "update_task" /\ last_access.task_id \notin DOMAIN registry

\* C35: a status only moves pending -> processing -> completed or failed;
\* a result is set only while the status is completed and an error only
\* while it is failed; an update of an unknown id raises KeyError and leaves
\* the registry as it was.
C35_TaskLifecycle ==
    /\ [](\A id \in DOMAIN registry :
            /\ registry[id].result # Nothing => registry[id].status = "completed"
            /\ registry[id].error # Nothing => registry[id].status = "failed")
    /\ [](UnknownUpdate => returned.kind = "KeyError")
    /\ [][\A id \in DOMAIN registry :
            registry'[id].status # registry[id].status
                => LifecycleStep(registry[id].status, registry'[id].status)]_vars
    /\ [][UnknownUpdate' => registry' = registry]_vars

\* a task went through processing to failed with its error set, and an
\* update of an unknown id was refused
C35_Witness ==
    /\ \E id \in DOMAIN registry :
         registry[id].status = "failed" /\ registry[id].error # Nothing
    /\ UnknownUpdate
    /\ returned.kind = "KeyError"

\* C36: every task created by a clips endpoint has a background job
\* scheduled for it.
C36_EveryTaskHasAJob ==
    \A id \in DOMAIN registry : id \in DOMAIN scheduled

\* C37: once the job of an upload has finished, the file the endpoint saved
\* for it is removed.
C37_UploadRemovedAfterJob ==
    \A id \in DOMAIN scheduled : scheduled[id] = "done" => id \notin saved_uploads

(***************************************************************************)
(* Properties of the event loop.                                           *)
(***************************************************************************)
\* C38: while a job is inside an ffmpeg or ffprobe invocation, the loop's
\* thread is not held by it: other jobs and task-status reads can proceed.
C38_InvocationOffTheLoop ==
    \A self \in LoopJobs : l_pc[self] \in Invocations => loop_thread # self

(***************************************************************************)
(* Properties of the merged text.                                          *)
(***************************************************************************)
\* the successful chunks whose text is not empty
Spoken == { i \in Succeeded : backend[i].text # <<>> }

\* the texts of the chunks of a set, in ascending index order, with one
\* space between two texts
RECURSIVE JoinedTexts(_)
JoinedTexts(chunks) ==
    IF chunks = {} THEN <<>>
    ELSE LET last == CHOOSE i \in chunks : \A k \in chunks : k <= i
             before == JoinedTexts(chunks \ {last})
         IN  IF before = <<>> THEN backend[last].text
             ELSE before \o <<Space>> \o backend[last].text

\* C39: the merged text is the non-empty texts of the successful chunks in
\* chunk-index order, joined by exactly one space; it has no leading, no
\* trailing and no doubled space.
C39_MergedText ==
    (MultiChunk /\ Merged) =>
        /\ transcript.text = JoinedTexts(Spoken)
        /\ transcript.text # <<>> =>
             /\ transcript.text[1] # Space
             /\ transcript.text[Len(transcript.text)] # Space
        /\ \A p \in 1..(Len(transcript.text) - 1) :
             ~(transcript.text[p] = Space /\ transcript.text[p + 1] = Space)

\* three chunks succeeded, the middle one with an empty text, and the text
\* is the first and the last joined by one space
C39_Witness ==
    /\ MultiChunk /\ Merged
    /\ Succeeded = {0, 1, 2}
    /\ backend[1].text = <<>>
    /\ transcript.text = ChunkText(0) \o <<Space>> \o ChunkText(2)

\* C40: for a target label the filter either has no crop, when the source is
\* closer than 0.01 to the target ratio, or a crop of positive width and
\* height that lies inside the source frame; it always ends with the scale
\* to the canvas of the label.
C40_CropInsideFrame ==
    CroppedRender =>
        LET ratio == TargetRatio(clip_request.aspect_ratio)
            width == video_info.width
            height == video_info.height
            crop == TheFilter.crop
        IN  /\ VideoFilter # Nothing
            /\ TheFilter.scale = TargetCanvas(clip_request.aspect_ratio)
            /\ \/ crop = NoCrop /\ WithinTolerance(width, height, ratio)
               \/ /\ crop.w > 0 /\ crop.h > 0
                  /\ crop.x >= 0 /\ crop.y >= 0
                  /\ crop.x + crop.w <= width
                  /\ crop.y + crop.h <= height

====
